---- MODULE Spec2Model ----
(***************************************************************************)
(* A model of the OmegaConf configuration tree: nodes live in a heap (a    *)
(* sequence of node records addressed by index), so that aliasing, parent  *)
(* links and deep copies are visible.  Python values are encoded as:       *)
(*   scalar   [ty |-> "int"|"str"|"none", s |-> sequence of tokens]        *)
(*   py tree  [t |-> "s"|"d"|"l"|"sc", v |-> scalar, items |-> sequence of *)
(*             [k |-> key, x |-> py tree], cls |-> schema class name]      *)
(* A string is a sequence of tokens so that the interpolation syntax can   *)
(* be matched the way the regular expression of get_value_kind does.       *)
(***************************************************************************)
EXTENDS Integers, Sequences, FiniteSets, TLC

VARIABLES heap, cfg, prev, last, ops, resolvers

vars == <<heap, cfg, prev, last, ops, resolvers>>

(***************************************************************************)
(* Bounds of the model.                                                    *)
(***************************************************************************)
MaxOps == 1
\* nesting of interpolations followed before Python's recursion limit is hit
MaxResolveDepth == 4

(***************************************************************************)
(* Scalars and strings.                                                    *)
(***************************************************************************)
NoneV == [ty |-> "none", s |-> <<>>]
\* an int is written by its decimal digits (one token)
IntV(n) == [ty |-> "int", s |-> <<n>>]
StrV(toks) == [ty |-> "str", s |-> toks]

MISSING == StrV(<<"???">>)

\* II(interpolation) == "${" + interpolation + "}"
II(interpolation) == StrV(<<"${">> \o interpolation \o <<"}">>)

\* tokens made only of \w characters
WordToks == {"a", "b", "f", "x", "unk", "env", "1", "2", "3"}
\* single characters of the class [\w\.%_ \\,-] that are not \w
LegalToks == {".", ",", " ", "-", "%", "\\,", "\\ "}

IsStr(v) == v.ty = "str"

\* end position of the run of tokens of S starting at position i
RECURSIVE RunEnd(_, _, _)
RunEnd(s, i, S) ==
    IF i <= Len(s) /\ s[i] \in S THEN RunEnd(s, i + 1, S) ELSE i

\* key_prefix = \${(\w+:)? ; legal_characters = ([\w\.%_ \\,-]*?)}
\* MatchAt(s, i) is 0 when no match starts at i, else the position of the
\* closing brace of the match starting at i.
MatchAt(s, i) ==
    IF i > Len(s) \/ s[i] # "${" THEN 0
    ELSE LET body(w) == IF w > i + 1 /\ w <= Len(s) /\ s[w] = ":"
                        THEN w + 1 ELSE i + 1
             closed(e) == IF e <= Len(s) /\ s[e] = "}" THEN e ELSE 0
         IN closed(RunEnd(s, body(RunEnd(s, i + 1, WordToks)),
                          WordToks \cup LegalToks))

\* re.finditer: the non-overlapping matches, left to right, as <<from, to>>
RECURSIVE FindIter(_, _)
FindIter(s, i) ==
    IF i > Len(s) THEN <<>>
    ELSE LET from(e) == IF e # 0 THEN <<(<<i, e>>)>> \o FindIter(s, e + 1)
                        ELSE FindIter(s, i + 1)
         IN from(MatchAt(s, i))

\* the variant of get_value_kind that calls a string with one match an
\* INTERPOLATION whatever else the string holds
value_kind_one_match(value) ==
    IF value = MISSING THEN "MANDATORY_MISSING"
    ELSE IF ~IsStr(value) THEN "VALUE"
    ELSE LET kind(match_list) ==
                 IF Len(match_list) = 0 THEN "VALUE"
                 ELSE IF Len(match_list) = 1 THEN "INTERPOLATION"
                      ELSE "STR_INTERPOLATION"
         IN kind(FindIter(value.s, 1))

\* get_value_kind on a scalar (the container cases are in ValueKindOf)
get_value_kind(value) ==
    IF value = MISSING THEN "MANDATORY_MISSING"
    ELSE IF ~IsStr(value) THEN "VALUE"
    ELSE LET kind(match_list) ==
                 IF Len(match_list) = 0 THEN "VALUE"
                 ELSE IF Len(match_list) = 1
                         /\ match_list[1] = <<1, Len(value.s)>>
                      THEN "INTERPOLATION"
                      ELSE "STR_INTERPOLATION"
         IN kind(FindIter(value.s, 1))

_is_interpolation(v) ==
    IsStr(v) /\ get_value_kind(v) \in {"INTERPOLATION", "STR_INTERPOLATION"}

(***************************************************************************)
(* Python values handed to the library.                                    *)
(***************************************************************************)
PyS(v) == [t |-> "s", v |-> v, items |-> <<>>, cls |-> "", id |-> 0]
PyD(items) == [t |-> "d", v |-> NoneV, items |-> items, cls |-> "", id |-> 0]
PyL(items) == [t |-> "l", v |-> NoneV, items |-> items, cls |-> "", id |-> 0]
\* a structured config class (a dataclass type)
PySC(cls) == [t |-> "sc", v |-> NoneV, items |-> <<>>, cls |-> cls, id |-> 0]
\* an instance of a dataclass built with the constructor arguments attrs
PyObj(cls, attrs) == [t |-> "sc", v |-> NoneV, items |-> attrs, cls |-> cls, id |-> 0]
\* a reference to a Node object of the heap
PyN(id) == [t |-> "n", v |-> NoneV, items |-> <<>>, cls |-> "", id |-> id]
KV(k, x) == [k |-> k, x |-> x]
PyNone == PyS(NoneV)

(***************************************************************************)
(* Results of operations: the heap as the call left it (a raise keeps the  *)
(* mutations made before it), the exception raised ("" for none) and the   *)
(* returned value.                                                         *)
(***************************************************************************)
Ok(h, x) == [h |-> h, err |-> "", ret |-> x]
Raise(h, e) == [h |-> h, err |-> e, ret |-> 0]

\* r, then K on its outcome unless r raised: the exception propagates
Bind(r, K(_)) == IF r.err # "" THEN r ELSE K(r)
\* K on the value v
Let(v, K(_)) == K(v)

(***************************************************************************)
(* Nodes.                                                                  *)
(***************************************************************************)
NoFlags == [readonly |-> "unset", struct |-> "unset"]

NewNode(kind, parent, optional, vtype) ==
    [kind |-> kind, ctype |-> "none", val |-> NoneV, keys |-> <<>>,
     kids |-> <<>>, parent |-> parent, flags |-> NoFlags,
     optional |-> optional, object_type |-> "None",
     annotated_type |-> "None", vtype |-> vtype, cacheref |-> 0,
     cache |-> {}]

\* A container's metadata holds its resolver cache, a dict object of its own:
\* a heap record of kind "cache" whose entries are [name, key, val].
NewCache == NewNode("cache", 0, TRUE, "Any")

\* the heap with a new container (and its cache) appended; the container is
\* the last record
AllocContainer(h, kind, parent, optional) ==
    Append(Append(h, NewCache),
           [NewNode(kind, parent, optional, "Any") EXCEPT !.cacheref = Len(h) + 1])

IsContainer(h, n) == h[n].kind \in {"dict", "list"}
IsValueNode(h, n) == h[n].kind = "val"

\* position of key in the dict's key order, 0 when absent
RECURSIVE IndexOf(_, _, _)
IndexOf(keys, key, i) ==
    IF i > Len(keys) THEN 0
    ELSE IF keys[i] = key THEN i ELSE IndexOf(keys, key, i + 1)

HasKey(h, n, key) ==
    h[n].kind = "dict" /\ h[n].ctype = "map" /\ IndexOf(h[n].keys, key, 1) # 0

\* self.__dict__["_content"].get(key): the child's id, 0 for None
ContentGet(h, n, key) ==
    IF h[n].kind = "dict" /\ h[n].ctype = "map"
    THEN Let(IndexOf(h[n].keys, key, 1),
             LAMBDA i : IF i = 0 THEN 0 ELSE h[n].kids[i])
    ELSE 0

_is_none(h, n) ==
    IF IsContainer(h, n) THEN h[n].ctype = "none" ELSE h[n].val = NoneV

_is_missing(h, n) ==
    IF IsContainer(h, n) THEN h[n].ctype = "str" /\ h[n].val = MISSING
    ELSE h[n].val = MISSING

_node_is_interpolation(h, n) ==
    IF IsContainer(h, n) THEN h[n].ctype = "str" /\ _is_interpolation(h[n].val)
    ELSE _is_interpolation(h[n].val)

_get_node_flag(h, n, flag) == h[n].flags[flag]

RECURSIVE _get_flag(_, _, _)
_get_flag(h, n, flag) ==
    IF h[n].flags[flag] # "unset" THEN h[n].flags[flag]
    ELSE IF h[n].parent = 0 THEN "unset"
    ELSE _get_flag(h, h[n].parent, flag)

_set_flag(h, n, flag, value) ==
    [h EXCEPT ![n].flags = [@ EXCEPT ![flag] = value]]

RECURSIVE _get_root(_, _)
_get_root(h, n) == IF h[n].parent = 0 THEN n ELSE _get_root(h, h[n].parent)

(***************************************************************************)
(* Schema types (dataclasses).  A field is [name, type, has_default,       *)
(* default, optional, nested].                                             *)
(***************************************************************************)
Field(name, type, default) ==
    [name |-> name, type |-> type, has_default |-> TRUE, default |-> default,
     optional |-> FALSE, factory |-> FALSE]
NoDefault(name, type) ==
    [name |-> name, type |-> type, has_default |-> FALSE, default |-> PyNone,
     optional |-> FALSE, factory |-> FALSE]
\* field(default_factory=...): default is the value the factory returns
Factory(name, type, default) ==
    [name |-> name, type |-> type, has_default |-> FALSE, default |-> default,
     optional |-> FALSE, factory |-> TRUE]

SchemaClasses ==
    {"User", "Group", "Plugin", "ConcretePlugin", "PluginHolder", "Str2Str",
     "Users", "NoDefaults"}

Fields(cls) ==
    CASE cls = "User" ->
           <<Field("a", "str", PyS(MISSING)), Field("b", "int", PyS(MISSING))>>
      [] cls = "Group" ->
           <<Field("a", "str", PyS(MISSING)), NoDefault("b", "User")>>
      [] cls = "Plugin" ->
           <<Field("a", "str", PyS(MISSING)), Field("b", "Any", PyS(MISSING))>>
      [] cls = "ConcretePlugin" ->
           <<Field("a", "str", PyS(StrV(<<"x">>))), Field("b", "int", PyS(IntV("1")))>>
      [] cls = "PluginHolder" ->
           <<Field("a", "Plugin", PySC("ConcretePlugin"))>>
      [] cls = "Users" ->
           <<Factory("a", "Any", PyD(<<>>))>>
      [] cls = "NoDefaults" ->
           <<NoDefault("a", "int"), Field("b", "str", PyS(StrV(<<"x">>)))>>
      [] OTHER -> <<>>

\* Str2Str is a dataclass without fields that extends Dict[str, str]
issubclass(c, d) ==
    \/ c = d
    \/ (c = "ConcretePlugin" /\ d = "Plugin")
    \/ (c = "Str2Str" /\ d = "dict")

is_structured_config(x) == x \in SchemaClasses
is_structured_value(value) == value.t = "sc"

(***************************************************************************)
(* Value nodes (AnyNode, IntegerNode, StringNode).                         *)
(***************************************************************************)
Digits == {"1", "2", "3"}

\* validate_and_convert of the node variant vtype: [ok, v]
validate_and_convert(vtype, v) ==
    IF v = NoneV THEN [ok |-> TRUE, v |-> v]
    ELSE CASE vtype = "int" ->
                IF v.ty = "int" THEN [ok |-> TRUE, v |-> v]
                ELSE IF Len(v.s) = 1 /\ v.s[1] \in Digits
                     THEN [ok |-> TRUE, v |-> IntV(v.s[1])]
                     ELSE [ok |-> FALSE, v |-> v]
           [] vtype = "str" -> [ok |-> TRUE, v |-> StrV(v.s)]
           [] OTHER -> [ok |-> TRUE, v |-> v]

\* ValueNode._set_value: the missing-sentinel and interpolations are stored
\* raw, anything else is validated and normalized by the variant
ValueNode_set_value(h, n, value) ==
    IF IsStr(value) /\ get_value_kind(value) # "VALUE"
    THEN Ok([h EXCEPT ![n].val = value], n)
    ELSE IF value = NoneV /\ ~h[n].optional THEN Raise(h, "ValidationError")
    ELSE Let(validate_and_convert(h[n].vtype, value),
             LAMBDA c : IF c.ok THEN Ok([h EXCEPT ![n].val = c.v], n)
                        ELSE Raise(h, "ValidationError"))

ValueNode_init(h, vtype, value, parent, is_optional) ==
    Let(ValueNode_set_value(Append(h, [NewNode("val", parent, is_optional, vtype)
                                         EXCEPT !.ctype = "val"]),
                            Len(h) + 1, value),
        LAMBDA r : IF r.err # "" THEN Raise(h, r.err) ELSE r)

_valid_value_annotation_type(type_) ==
    type_ \in {"Any", "int", "str"} \/ is_structured_config(type_)

_node_wrap(h, type_, parent, is_optional, value) ==
    IF ~_valid_value_annotation_type(type_) THEN Raise(h, "ValidationError")
    ELSE IF type_ \in {"Any", "None", "int", "str"}
         THEN ValueNode_init(h, IF type_ = "None" THEN "Any" ELSE type_,
                             value.v, parent, is_optional)
         ELSE Raise(h, "ValidationError")

(***************************************************************************)
(* Key validation.  Keys of the model are strings; IntKeys stand for keys  *)
(* that are Python ints, which no key_type of a DictConfig accepts.        *)
(***************************************************************************)
StrKeys == {"a", "b", "c"}
IntKeys == {"#1"}

_validate_and_normalize_key(key) ==
    IF key \in StrKeys THEN [err |-> "", key |-> key]
    ELSE [err |-> "KeyValidationError", key |-> key]

\* `key in self.__dict__["_content"]`: membership in the dict, or Python's
\* substring test when the content is a string
KeyInContent(h, n, key) ==
    IF h[n].ctype = "map" THEN HasKey(h, n, key)
    ELSE \E i \in 1..Len(h[n].val.s) : h[n].val.s[i] = key

\* the variant of _validate_get that looks at the node's own struct flag only
validate_get_own_flag(h, n, key) ==
    LET is_typed == h[n].object_type # "None"
        is_struct == _get_node_flag(h, n, "struct") = "true"
    IN IF h[n].ctype = "none" THEN "TypeError"
       ELSE IF KeyInContent(h, n, key) THEN ""
       ELSE IF is_typed /\ _get_node_flag(h, n, "struct") = "false" THEN ""
       ELSE IF is_typed /\ issubclass(h[n].object_type, "dict") THEN ""
       ELSE IF is_typed \/ is_struct THEN "AttributeError"
       ELSE ""

\* the exception _validate_get raises, "" for none
_validate_get(h, n, key) ==
    LET is_typed == h[n].object_type # "None"
        is_struct == _get_flag(h, n, "struct") = "true"
    IN IF h[n].ctype = "none" THEN "TypeError"
       ELSE IF KeyInContent(h, n, key) THEN ""
       ELSE IF is_typed /\ _get_node_flag(h, n, "struct") = "false" THEN ""
       ELSE IF is_typed /\ issubclass(h[n].object_type, "dict") THEN ""
       ELSE IF is_typed \/ is_struct THEN "AttributeError"
       ELSE ""

\* a default value is a Python value or NoDefaultArg (default_value=None)
NoDefaultArg == PyNone

\* get_node_ex: ret is [id |-> the child (0 for None), dflt |-> whether the
\* default value is returned instead of a node]
get_node_ex(h, n, key, default_value, validate_access) ==
    IF h[n].ctype # "map" THEN Raise(h, "AttributeError")
    ELSE IF validate_access
         THEN Let(_validate_get(h, n, key),
                  LAMBDA e :
                      IF e \in {"KeyError", "AttributeError"}
                      THEN IF default_value # PyNone
                           THEN Ok(h, [id |-> 0, dflt |-> TRUE])
                           ELSE Raise(h, e)
                      ELSE IF e # "" THEN Raise(h, e)
                      ELSE Ok(h, [id |-> ContentGet(h, n, key), dflt |-> FALSE]))
         ELSE IF default_value # PyNone
              THEN Ok(h, [id |-> 0, dflt |-> TRUE])
              ELSE Ok(h, [id |-> ContentGet(h, n, key), dflt |-> FALSE])

get_node(h, n, key) == get_node_ex(h, n, key, PyNone, TRUE)

\* value == "???" for a Python value or a node
EqMissing(h, value) ==
    \/ value.t = "s" /\ value.v = MISSING
    \/ value.t = "n" /\ IsValueNode(h, value.id) /\ h[value.id].val = MISSING

\* get_type of _validate_set
get_type(h, c) ==
    IF c.t = "sc" THEN c.cls
    ELSE IF c.t = "n" /\ h[c.id].kind = "dict" THEN h[c.id].object_type
    ELSE IF c.t = "n" THEN h[c.id].kind
    ELSE IF c.t = "s" THEN c.v.ty
    ELSE c.t

\* the variant of _validate_set that does not compare the types
validate_set_untyped(h, n, key, value) ==
    LET check(target) ==
            IF EqMissing(h, value) THEN ""
            ELSE IF target # 0 /\ _get_flag(h, target, "readonly") = "true"
                 THEN "ReadonlyConfigError"
            ELSE IF target = 0 /\ _get_flag(h, n, "readonly") = "true"
                 THEN "ReadonlyConfigError"
            ELSE ""
    IN Let(get_node(h, n, key),
           LAMBDA t : IF t.err # "" THEN t.err ELSE check(t.ret.id))

\* the exception _validate_set raises, "" for none
_validate_set(h, n, key, value) ==
    LET is_typed(target) ==
            h[target].kind = "dict" /\ h[target].object_type # "None"
        incompatible(target_type, value_type) ==
            target_type # "None" /\ value_type # "None"
                /\ ~issubclass(value_type, target_type)
        check(target) ==
            IF EqMissing(h, value) THEN ""
            ELSE IF target # 0 /\ _get_flag(h, target, "readonly") = "true"
                 THEN "ReadonlyConfigError"
            ELSE IF target = 0 /\ _get_flag(h, n, "readonly") = "true"
                 THEN "ReadonlyConfigError"
            ELSE IF target = 0 THEN ""
            ELSE IF ~is_typed(target) THEN ""
            ELSE IF value = PyNone THEN ""
            ELSE IF incompatible(get_type(h, PyN(target)), get_type(h, value))
                 THEN "ValidationError"
            ELSE ""
    IN Let(get_node(h, n, key),
           LAMBDA t : IF t.err # "" THEN t.err ELSE check(t.ret.id))

(***************************************************************************)
(* Construction and assignment.                                            *)
(***************************************************************************)
RECURSIVE _maybe_wrap(_, _, _, _, _)
RECURSIVE DictConfig_init(_, _, _, _, _)
RECURSIVE ListConfig_init(_, _, _, _)
RECURSIVE DictConfig_set_value(_, _, _)
RECURSIVE get_dataclass_data(_, _, _, _)
RECURSIVE SetItems(_, _, _, _)
RECURSIVE AppendItems(_, _, _, _)
RECURSIVE _set_item_impl(_, _, _, _)
RECURSIVE __set_impl(_, _, _, _)
RECURSIVE __setitem__(_, _, _, _)

\* _resolve_optional: Any is optional, Optional[T] is marked on the field
_resolve_optional(field) == field.optional \/ field.type = "Any"

\* the constructor argument of the instance obj named name, PyNone for none
\* (a type has no constructor arguments)
InstanceAttr(obj, name) ==
    LET hit == {i \in 1..Len(obj.items) : obj.items[i].k = name}
    IN IF hit = {} THEN [has |-> FALSE, x |-> PyNone]
       ELSE [has |-> TRUE, x |-> obj.items[CHOOSE i \in hit : TRUE].x]

\* the variant of get_dataclass_data that takes the default of a field
\* before the value of the instance
dataclass_data_default_first(h, obj, i, d) ==
    IF i > Len(Fields(obj.cls)) THEN Ok(h, d)
    ELSE LET wrap(field, attr) ==
                 IF ~attr.has /\ ~field.has_default /\ ~field.factory
                    /\ ~is_structured_config(field.type)
                 THEN Raise(h, "ValueError")
                 ELSE Bind(_maybe_wrap(h, field.type,
                                       IF field.has_default \/ field.factory
                                       THEN field.default
                                       ELSE IF attr.has THEN attr.x
                                       ELSE PySC(field.type),
                                       _resolve_optional(field), 0),
                           LAMBDA r :
                               get_dataclass_data(
                                   r.h, obj, i + 1,
                                   Append(d, KV(field.name, PyN(r.ret)))))
         IN wrap(Fields(obj.cls)[i], InstanceAttr(obj, Fields(obj.cls)[i].name))

\* the fields of the dataclass type or instance obj from position i on, each
\* wrapped with parent None; ret is the sequence of [k |-> name, x |-> the
\* node].  hasattr(obj, name) holds for a constructor argument and for a
\* field with a plain default (a class attribute).
get_dataclass_data(h, obj, i, d) ==
    IF i > Len(Fields(obj.cls)) THEN Ok(h, d)
    ELSE LET wrap(field, attr) ==
                 IF ~attr.has /\ ~field.has_default /\ ~field.factory
                    /\ ~is_structured_config(field.type)
                 THEN Raise(h, "ValueError")
                 ELSE Bind(_maybe_wrap(h, field.type,
                                       IF attr.has THEN attr.x
                                       ELSE IF field.has_default \/ field.factory
                                       THEN field.default
                                       ELSE PySC(field.type),
                                       _resolve_optional(field), 0),
                           LAMBDA r :
                               get_dataclass_data(
                                   r.h, obj, i + 1,
                                   Append(d, KV(field.name, PyN(r.ret)))))
         IN wrap(Fields(obj.cls)[i], InstanceAttr(obj, Fields(obj.cls)[i].name))

get_structured_config_data(h, obj) == get_dataclass_data(h, obj, 1, <<>>)

\* for k, v in value.items(): self.__setitem__(k, v)
SetItems(h, n, items, i) ==
    IF i > Len(items) THEN Ok(h, n)
    ELSE Bind(__setitem__(h, n, items[i].k, items[i].x),
              LAMBDA r : SetItems(r.h, n, items, i + 1))

\* the variant of _set_value that takes None whether or not the node is
\* optional
set_value_any_optional(h, n, value) ==
    LET h1 == [h EXCEPT ![n].object_type = h[n].annotated_type]
        clear(c, v) == [h1 EXCEPT ![n].ctype = c, ![n].val = v,
                                  ![n].keys = <<>>, ![n].kids = <<>>]
        is_structured == is_structured_value(value)
    IN IF value = PyNone THEN Ok(clear("none", NoneV), n)
       ELSE IF value.t = "s" /\ _is_interpolation(value.v)
            THEN Ok(clear("str", value.v), n)
       ELSE IF value.t = "s" /\ value.v = MISSING
            THEN Ok(clear("str", MISSING), n)
       ELSE IF value.t \notin {"d", "sc"} THEN Raise(h1, "AttributeError")
       ELSE Bind(IF is_structured THEN get_structured_config_data(h1, value)
                 ELSE Ok(h1, value.items),
                 LAMBDA data :
                     Bind(SetItems([data.h EXCEPT ![n].object_type = "None",
                                                  ![n].ctype = "map",
                                                  ![n].val = NoneV,
                                                  ![n].keys = <<>>,
                                                  ![n].kids = <<>>],
                                   n, data.ret, 1),
                          LAMBDA r :
                              IF is_structured
                              THEN Ok([r.h EXCEPT ![n].object_type = value.cls], n)
                              ELSE r))

DictConfig_set_value(h, n, value) ==
    LET h1 == [h EXCEPT ![n].object_type = h[n].annotated_type]
        clear(c, v) == [h1 EXCEPT ![n].ctype = c, ![n].val = v,
                                  ![n].keys = <<>>, ![n].kids = <<>>]
        is_structured == is_structured_value(value)
    IN IF value = PyNone
       THEN IF ~h1[n].optional THEN Raise(h1, "ValidationError")
            ELSE Ok(clear("none", NoneV), n)
       ELSE IF value.t = "s" /\ _is_interpolation(value.v)
            THEN Ok(clear("str", value.v), n)
       ELSE IF value.t = "s" /\ value.v = MISSING
            THEN Ok(clear("str", MISSING), n)
       ELSE IF value.t \notin {"d", "sc"} THEN Raise(h1, "AttributeError")
       ELSE Bind(IF is_structured THEN get_structured_config_data(h1, value)
                 ELSE Ok(h1, value.items),
                 LAMBDA data :
                     Bind(SetItems([data.h EXCEPT ![n].object_type = "None",
                                                  ![n].ctype = "map",
                                                  ![n].val = NoneV,
                                                  ![n].keys = <<>>,
                                                  ![n].kids = <<>>],
                                   n, data.ret, 1),
                          LAMBDA r :
                              IF is_structured
                              THEN Ok([r.h EXCEPT ![n].object_type = value.cls], n)
                              ELSE r))

\* DictConfig.__init__ with key_type and element_type Any
DictConfig_init(h, content, parent, annotated_type, is_optional) ==
    LET n == Len(h) + 2
        h1 == [AllocContainer(h, "dict", parent, is_optional)
                 EXCEPT ![n].annotated_type =
                          IF is_structured_config(annotated_type)
                          THEN annotated_type ELSE "None"]
    IN DictConfig_set_value(h1, n, content)

\* ListConfig.__init__: every element is wrapped and appended
AppendItems(h, n, items, i) ==
    IF i > Len(items) THEN Ok(h, n)
    ELSE Bind(_maybe_wrap(h, "Any", items[i].x, TRUE, n),
              LAMBDA r : AppendItems([r.h EXCEPT ![n].kids = Append(@, r.ret)],
                                     n, items, i + 1))

ListConfig_init(h, content, parent, is_optional) ==
    LET n == Len(h) + 2
        h1 == AllocContainer(h, "list", parent, is_optional)
    IN IF content = PyNone THEN Ok(h1, n)
       ELSE IF content.t = "s"
            THEN Ok([h1 EXCEPT ![n].ctype = "str", ![n].val = content.v], n)
       ELSE AppendItems([h1 EXCEPT ![n].ctype = "seq"], n, content.items, 1)

_maybe_wrap(h, annotated_type, value, is_optional, parent) ==
    LET is_node == value.t = "n"
        is_dict == value.t = "d" \/ (is_node /\ h[value.id].kind = "dict")
        is_list == value.t = "l" \/ (is_node /\ h[value.id].kind = "list")
        \* a structured value, or a value a field of a structured type takes
        \* as a DictConfig of that type
        is_typed == \/ is_structured_value(value)
                    \/ /\ is_structured_config(annotated_type)
                       /\ \/ value = PyNone
                          \/ /\ value.t = "s"
                             /\ get_value_kind(value.v)
                                    \in {"MANDATORY_MISSING", "INTERPOLATION"}
    IN IF is_node /\ IsValueNode(h, value.id) THEN Ok(h, value.id)
       ELSE IF is_list THEN ListConfig_init(h, value, parent, is_optional)
       ELSE IF is_dict \/ is_typed
            THEN DictConfig_init(h, value, parent,
                                 IF is_dict THEN "None" ELSE annotated_type,
                                 is_optional)
       ELSE _node_wrap(h, annotated_type, parent, is_optional, value)

\* self.__dict__["_content"][key] = node, with the node's parent set to self
Assign(h, n, key, node) ==
    LET i == IndexOf(h[n].keys, key, 1)
        h1 == [h EXCEPT ![node].parent = n]
    IN IF i = 0
       THEN [h1 EXCEPT ![n].keys = Append(@, key), ![n].kids = Append(@, node)]
       ELSE [h1 EXCEPT ![n].kids = [@ EXCEPT ![i] = node]]

_set_item_impl(h, n, key, value) ==
    LET input_node == value.t = "n"
        special_value == value = PyNone \/ (value.t = "s" /\ value.v = MISSING)
        type_(target) ==
            IF is_structured_value(value)
            THEN IF target = 0 THEN value.cls ELSE h[target].annotated_type
            ELSE h[n].vtype
        is_optional(target) ==
            IF is_structured_value(value) /\ target # 0
            THEN h[target].optional ELSE TRUE
        assign(target) ==
            IF input_node THEN Ok(Assign(h, n, key, value.id), n)
            ELSE IF target # 0 /\ IsValueNode(h, target) /\ value.t = "s"
                 THEN Bind(ValueNode_set_value(h, target, value.v),
                           LAMBDA r : Ok(r.h, n))
            ELSE IF target # 0 /\ h[target].kind = "dict" /\ special_value
                 THEN Bind(DictConfig_set_value(h, target, value),
                           LAMBDA r : Ok(r.h, n))
            ELSE IF target # 0 /\ h[target].kind = "list" /\ special_value
                 THEN Ok([h EXCEPT ![target].ctype =
                                       IF value = PyNone THEN "none" ELSE "str",
                                   ![target].val = value.v,
                                   ![target].kids = <<>>], n)
            ELSE Bind(_maybe_wrap(h, type_(target), value, is_optional(target), n),
                      LAMBDA r : Ok(Assign(r.h, n, key, r.ret), n))
    IN Let(_validate_set(h, n, key, value),
           LAMBDA e : IF e # "" THEN Raise(h, e)
                      ELSE assign(ContentGet(h, n, key)))

__set_impl(h, n, key, value) ==
    LET k == _validate_and_normalize_key(key)
    IN IF k.err # "" THEN Raise(h, k.err)
       ELSE _set_item_impl(h, n, k.key, value)

__setitem__(h, n, key, value) ==
    Let(__set_impl(h, n, key, value),
        LAMBDA r : IF r.err = "AttributeError" THEN Raise(r.h, "KeyError") ELSE r)

\* OmegaConf.create of a Python value (a dict, a list, a dataclass or None)
create(h, obj) ==
    IF obj.t \in {"d", "sc"} \/ obj = PyNone
    THEN DictConfig_init(h, obj, 0,
                         IF obj.t = "sc" THEN obj.cls ELSE "None", TRUE)
    ELSE IF obj.t = "l" THEN ListConfig_init(h, obj, 0, TRUE)
    ELSE Raise(h, "ValidationError")

(***************************************************************************)
(* Deep copy.  copy.deepcopy copies every object reachable from the node   *)
(* (content, metadata with flags and resolver cache).  While the copy is   *)
(* under way the _parent of a copied child is not the copy being built but *)
(* a second, discarded copy of the parent made through the memo (the       *)
(* record Stale stands for it); _re_parent then sets every child's parent  *)
(* to the container that holds it.                                         *)
(***************************************************************************)
RECURSIVE CopyNode(_, _, _)
RECURSIVE CopyKids(_, _, _, _, _)

CopyKids(h, src, new, stale, i) ==
    IF i > Len(h[src].kids) THEN Ok(h, new)
    ELSE Let(CopyNode(h, h[src].kids[i], stale),
             LAMBDA r :
                 CopyKids([r.h EXCEPT ![new].kids = [@ EXCEPT ![i] = r.ret]],
                          src, new, stale, i + 1))

CopyNode(h, n, stale) ==
    LET parent == IF h[n].parent = 0 THEN 0 ELSE stale
    IN IF IsContainer(h, n)
       THEN LET c == Len(h) + 1
                new == Len(h) + 2
                h1 == Append(Append(h, h[h[n].cacheref]),
                             [h[n] EXCEPT !.parent = parent, !.cacheref = c])
            IN CopyKids(h1, n, new, stale, 1)
       ELSE Ok(Append(h, [h[n] EXCEPT !.parent = parent]), Len(h) + 1)

RECURSIVE _re_parent(_, _)
RECURSIVE ReParentKids(_, _, _)

ReParentKids(h, n, i) ==
    IF i > Len(h[n].kids) THEN h
    ELSE LET parented(k) ==
                 IF IsContainer(h, k)
                 THEN _re_parent([h EXCEPT ![k].parent = n], k)
                 ELSE [h EXCEPT ![k].parent = n]
         IN ReParentKids(parented(h[n].kids[i]), n, i + 1)

_re_parent(h, n) == ReParentKids(h, n, 1)

\* a variant of __deepcopy__ that copies the container only and shares
\* its children with the original (copy.copy)
shallow_copy(h, n) == Ok(Append(h, h[n]), Len(h) + 1)

\* a variant of __deepcopy__ that does not call _re_parent on the copy
deepcopy_no_re_parent(h, n) ==
    CopyNode(Append(h, [h[n] EXCEPT !.kids = <<>>, !.keys = <<>>]),
             n, Len(h) + 1)

\* DictConfig.__deepcopy__ (ListConfig's is the same)
__deepcopy__(h, n) ==
    Let(CopyNode(Append(h, [h[n] EXCEPT !.kids = <<>>, !.keys = <<>>]),
                 n, Len(h) + 1),
        LAMBDA r : Ok(_re_parent(r.h, r.ret), r.ret))

(***************************************************************************)
(* Dump to primitive containers, without resolving.                        *)
(***************************************************************************)
RECURSIVE to_container(_, _)
RECURSIVE DumpKids(_, _, _)

DumpKids(h, n, i) ==
    IF i > Len(h[n].kids) THEN <<>>
    ELSE <<KV(IF h[n].kind = "dict" THEN h[n].keys[i] ELSE "",
              to_container(h, h[n].kids[i]))>> \o DumpKids(h, n, i + 1)

\* the variant of to_container that does not descend into the children
to_container_shallow(h, n) ==
    IF IsValueNode(h, n) THEN PyS(h[n].val)
    ELSE IF h[n].ctype = "none" THEN PyNone
    ELSE IF h[n].ctype = "str" THEN PyS(h[n].val)
    ELSE IF h[n].kind = "dict" THEN PyD(<<>>)
    ELSE PyL(<<>>)

to_container(h, n) ==
    IF IsValueNode(h, n) THEN PyS(h[n].val)
    ELSE IF h[n].ctype = "none" THEN PyNone
    ELSE IF h[n].ctype = "str" THEN PyS(h[n].val)
    ELSE IF h[n].kind = "dict" THEN PyD(DumpKids(h, n, 1))
    ELSE PyL(DumpKids(h, n, 1))

(***************************************************************************)
(* Merge.                                                                  *)
(***************************************************************************)
RECURSIVE _map_merge(_, _, _)
RECURSIVE MergeKeys(_, _, _, _)
RECURSIVE ReParentTo(_, _, _, _)

\* the children kids[i..] with their parent set to n
ReParentTo(h, n, kids, i) ==
    IF i > Len(kids) THEN h
    ELSE ReParentTo([h EXCEPT ![kids[i]].parent = n], n, kids, i + 1)

\* a variant of _list_merge that extends dest with the items of src
list_merge_extend(h, dest, src) ==
    IF _get_flag(h, dest, "readonly") = "true"
    THEN Raise(h, "ReadonlyConfigError")
    ELSE Ok(ReParentTo([h EXCEPT ![dest].kids = h[dest].kids \o h[src].kids],
                       dest, h[src].kids, 1), dest)

\* sequence into sequence: the override replaces the content wholesale
_list_merge(h, dest, src) ==
    IF _get_flag(h, dest, "readonly") = "true"
    THEN Raise(h, "ReadonlyConfigError")
    ELSE Ok(ReParentTo([h EXCEPT ![dest].ctype = h[src].ctype,
                                 ![dest].val = h[src].val,
                                 ![dest].kids = h[src].kids],
                       dest, h[src].kids, 1), dest)

RECURSIVE merge_keys_shallow(_, _, _, _)

\* a variant of MergeKeys that assigns every value of src, a map over a map
\* included
merge_keys_shallow(h, dest, src, i) ==
    IF i > Len(h[src].keys) THEN Ok(h, dest)
    ELSE Bind(__setitem__(h, dest, h[src].keys[i], PyN(h[src].kids[i])),
              LAMBDA r : merge_keys_shallow(r.h, dest, src, i + 1))

\* fold the keys src.keys[i..] of the map src into the map dest
MergeKeys(h, dest, src, i) ==
    IF i > Len(h[src].keys) THEN Ok(h, dest)
    ELSE LET key == h[src].keys[i]
             sk == h[src].kids[i]
             fold(dk) ==
                 IF dk # 0 /\ h[dk].kind = "dict" /\ h[sk].kind = "dict"
                 THEN Let(_validate_set(h, dest, key, PyN(sk)),
                          LAMBDA e : IF e # "" THEN Raise(h, e)
                                     ELSE _map_merge(h, dk, sk))
                 ELSE __setitem__(h, dest, key,
                                  IF dk # 0 /\ IsValueNode(h, sk)
                                  THEN PyS(h[sk].val) ELSE PyN(sk))
         IN Bind(fold(ContentGet(h, dest, key)),
                 LAMBDA r : MergeKeys(r.h, dest, src, i + 1))

\* map into map; src is a private copy of the override
_map_merge(h, dest, src) ==
    LET dest_type == h[dest].object_type
        src_type == h[src].object_type
        \* a dest that holds None, "???" or an interpolation is promoted to
        \* a map: the fields of its type, or the empty map
        promoted ==
            IF h[dest].ctype = "map" THEN Ok(h, dest)
            ELSE IF is_structured_config(h[dest].annotated_type)
                 THEN DictConfig_set_value(h, dest, PySC(h[dest].annotated_type))
            ELSE Ok([h EXCEPT ![dest].ctype = "map", ![dest].val = NoneV,
                              ![dest].keys = <<>>, ![dest].kids = <<>>], dest)
    IN IF dest_type # "None" /\ src_type # "None"
          /\ ~issubclass(src_type, dest_type)
       THEN Raise(h, "ValidationError")
       ELSE IF h[src].ctype # "map"
            THEN IF _get_flag(h, dest, "readonly") = "true"
                 THEN Raise(h, "ReadonlyConfigError")
                 ELSE DictConfig_set_value(h, dest, to_container(h, src))
       ELSE Bind(promoted,
                 LAMBDA p :
                     Bind(MergeKeys(p.h, dest, src, 1),
                          LAMBDA r :
                              IF src_type # "None"
                              THEN Ok([r.h EXCEPT ![dest].object_type = src_type],
                                      dest)
                              ELSE r))

RECURSIVE MergeOthers(_, _, _, _)

\* the variant of merge_with that skips an override that is None or of the
\* other kind
merge_others_lenient(h, n, others, i) ==
    IF i > Len(others) THEN Ok(_re_parent(h, n), n)
    ELSE LET other == others[i]
             fold(c) ==
                 IF h[n].kind = "dict" /\ c.h[c.ret].kind = "dict"
                 THEN _map_merge(c.h, n, c.ret)
                 ELSE IF h[n].kind = "list" /\ c.h[c.ret].kind = "list"
                      THEN _list_merge(c.h, n, c.ret)
                      ELSE Ok(c.h, n)
         IN IF other = PyNone THEN MergeOthers(h, n, others, i + 1)
            ELSE Bind(IF other.t = "n" THEN __deepcopy__(h, other.id)
                      ELSE IF other.t = "s" THEN Raise(h, "TypeError")
                      ELSE create(h, other),
                      LAMBDA c :
                          Bind(fold(c),
                               LAMBDA r : MergeOthers(r.h, n, others, i + 1)))

\* merge_with(*others) from position i on: each override is folded into self
MergeOthers(h, n, others, i) ==
    IF i > Len(others) THEN Ok(_re_parent(h, n), n)
    ELSE LET other == others[i]
             fold(c) ==
                 IF h[n].kind = "dict" /\ c.h[c.ret].kind = "dict"
                 THEN _map_merge(c.h, n, c.ret)
                 ELSE IF h[n].kind = "list" /\ c.h[c.ret].kind = "list"
                      THEN _list_merge(c.h, n, c.ret)
                      ELSE Raise(c.h, "TypeError")
         IN IF other = PyNone THEN Raise(h, "ValueError")
            ELSE Bind(IF other.t = "n" THEN __deepcopy__(h, other.id)
                      ELSE IF other.t = "s" THEN Raise(h, "TypeError")
                      ELSE create(h, other),
                      LAMBDA c :
                          Bind(fold(c),
                               LAMBDA r : MergeOthers(r.h, n, others, i + 1)))

merge_with(h, n, others) == MergeOthers(h, n, others, 1)

\* DictConfig._promote(type_or_prototype)
_promote(h, n, type_or_prototype) ==
    IF type_or_prototype = PyNone THEN Ok(h, n)
    ELSE IF ~is_structured_value(type_or_prototype) THEN Raise(h, "ValueError")
    ELSE Bind(create(h, type_or_prototype),
              LAMBDA proto :
                  LET type_ == proto.h[proto.ret].object_type
                      h1 == [proto.h EXCEPT ![proto.ret].object_type = "None"]
                  IN Bind(merge_with(h1, n, <<PyN(proto.ret)>>),
                          LAMBDA r : Ok([r.h EXCEPT ![n].object_type = type_], n)))

\* the variant of merge that folds only the first override
merge_first_only(h, others) ==
    IF others[1] = PyNone THEN Raise(h, "AssertionError")
    ELSE Bind(IF others[1].t = "n" THEN __deepcopy__(h, others[1].id)
              ELSE create(h, others[1]),
              LAMBDA target :
                  Bind(merge_with(target.h, target.ret, SubSeq(others, 2, 2)),
                       LAMBDA r : Ok(r.h, target.ret)))

\* the variant of merge that merges into others[0] itself
merge_in_place(h, others) ==
    IF others[1] = PyNone THEN Raise(h, "AssertionError")
    ELSE Bind(IF others[1].t = "n" THEN Ok(h, others[1].id)
              ELSE create(h, others[1]),
              LAMBDA target :
                  Bind(merge_with(target.h, target.ret, Tail(others)),
                       LAMBDA r : Ok(r.h, target.ret)))

\* the variant of merge that returns the copy of the base unmerged
merge_none(h, others) ==
    IF others[1].t = "n" THEN __deepcopy__(h, others[1].id)
    ELSE create(h, others[1])

\* OmegaConf.merge(*others)
merge(h, others) ==
    IF others[1] = PyNone THEN Raise(h, "AssertionError")
    ELSE Bind(IF others[1].t = "n" THEN __deepcopy__(h, others[1].id)
              ELSE create(h, others[1]),
              LAMBDA target :
                  Bind(merge_with(target.h, target.ret, Tail(others)),
                       LAMBDA r : Ok(r.h, target.ret)))

(***************************************************************************)
(* Reading: interpolation resolution, get, __contains__, pop.              *)
(* reg is the resolver registry, a set of [name, fn].                      *)
(***************************************************************************)
Registered(reg, name) == \E e \in reg : e.name = name
ResolverOf(reg, name) == (CHOOSE e \in reg : e.name = name).fn

\* callable(resolver)
callable(resolver) == resolver \in {"env", "f1", "f2"}

\* the variant of register_resolver that rebinds a registered name
register_rebind(reg, name, resolver) ==
    [reg |-> {e \in reg : e.name # name} \cup {[name |-> name, fn |-> resolver]},
     err |-> ""]

\* OmegaConf.register_resolver(name, resolver): the registry afterwards and
\* the exception raised ("" for none)
register_resolver(reg, name, resolver) ==
    IF ~callable(resolver) THEN [reg |-> reg, err |-> "AssertionError"]
    ELSE IF Registered(reg, name) THEN [reg |-> reg, err |-> "AssertionError"]
    ELSE [reg |-> reg \cup {[name |-> name, fn |-> resolver]}, err |-> ""]

\* register_default_resolvers(): env is registered
register_default_resolvers(reg) == register_resolver(reg, <<"env">>, "env")

\* OmegaConf.clear_resolvers()
clear_resolvers(reg) == register_default_resolvers({})

\* OmegaConf.get_resolver(name): the function registered, "None" for none
get_resolver(reg, name) ==
    IF Registered(reg, name) THEN ResolverOf(reg, name) ELSE "None"

\* os.environ of the process
Environ == [v \in {<<"x">>} |-> <<"1">>]

BoolV(b) == [ty |-> "bool", s |-> <<IF b THEN "True" ELSE "False">>]

\* decode_primitive of a string (bool, then int, else the string itself)
decode_primitive(s) ==
    IF Len(s) = 1 /\ s[1] \in {"true", "false"} THEN BoolV(s[1] = "true")
    ELSE IF Len(s) = 1 /\ s[1] \in Digits THEN IntV(s[1])
    ELSE StrV(s)

\* re.split(r"(?<!\\),", string): the parts between unescaped commas
RECURSIVE SplitCommas(_, _, _)
SplitCommas(toks, i, cur) ==
    IF i > Len(toks) THEN <<cur>>
    ELSE IF toks[i] = "," THEN <<cur>> \o SplitCommas(toks, i + 1, <<>>)
    ELSE SplitCommas(toks, i + 1, Append(cur, toks[i]))

\* an unescaped space is dropped when it is the first or the last character
StripBoundary(part) ==
    LET a == IF Len(part) > 0 /\ part[1] = " " THEN 2 ELSE 1
        b == IF Len(part) > 0 /\ part[Len(part)] = " " THEN Len(part) - 1
             ELSE Len(part)
    IN SubSeq(part, a, b)

\* "\," and "\ " lose their backslash
Unescape(part) ==
    [i \in 1..Len(part) |-> IF part[i] = "\\," THEN ","
                            ELSE IF part[i] = "\\ " THEN " " ELSE part[i]]

\* OmegaConf._tokenize_args: the arguments, each a string
_tokenize_args(string) ==
    IF string = <<>> THEN <<>>
    ELSE Let(SplitCommas(string, 1, <<>>),
             LAMBDA escaped :
                 [i \in 1..Len(escaped) |-> Unescape(StripBoundary(escaped[i]))])

\* what the function registered as fn returns for the arguments: [err, v]
CallResolver(fn, args) ==
    CASE fn = "env" ->
           IF Len(args) >= 1 /\ args[1] \in DOMAIN Environ
           THEN [err |-> "", v |-> decode_primitive(Environ[args[1]])]
           ELSE IF Len(args) >= 2
                THEN [err |-> "", v |-> decode_primitive(args[2])]
                ELSE IF Len(args) = 0 THEN [err |-> "TypeError", v |-> NoneV]
                ELSE [err |-> "KeyError", v |-> NoneV]
      [] fn = "f1" -> [err |-> "", v |-> IntV("1")]
      [] OTHER -> [err |-> "", v |-> IntV("2")]

get_cache(h, conf) == h[conf].cacheref

CacheHas(h, conf, name, key) ==
    \E e \in h[get_cache(h, conf)].cache : e.name = name /\ e.key = key
CacheGet(h, conf, name, key) ==
    (CHOOSE e \in h[get_cache(h, conf)].cache : e.name = name /\ e.key = key).val

\* the variant of caching that calls the function on every lookup
caching_uncached(h, fn, name, config, key) ==
    Let(CallResolver(fn, _tokenize_args(key)),
        LAMBDA c :
            IF c.err # "" THEN Raise(h, c.err)
            ELSE Ok([h EXCEPT ![get_cache(h, config)].cache =
                        {e \in @ : ~(e.name = name /\ e.key = key)}
                            \cup {[name |-> name, key |-> key, val |-> c.v]}],
                    PyS(c.v)))

\* the variant of caching whose stored results do not outlive the function
\* that computed them: a stored value the registered function would not
\* return is computed anew
caching_per_function(h, fn, name, config, key) ==
    Let(CallResolver(fn, _tokenize_args(key)),
        LAMBDA c :
            IF CacheHas(h, config, name, key) /\ c.err = ""
               /\ CacheGet(h, config, name, key) = c.v
            THEN Ok(h, PyS(c.v))
            ELSE IF c.err # "" THEN Raise(h, c.err)
            ELSE Ok([h EXCEPT ![get_cache(h, config)].cache =
                        {e \in @ : ~(e.name = name /\ e.key = key)}
                            \cup {[name |-> name, key |-> key, val |-> c.v]}],
                    PyS(c.v)))

\* the function `caching` that register_resolver stores under name
caching(h, fn, name, config, key) ==
    IF CacheHas(h, config, name, key)
    THEN Ok(h, PyS(CacheGet(h, config, name, key)))
    ELSE Let(CallResolver(fn, _tokenize_args(key)),
             LAMBDA c :
                 IF c.err # "" THEN Raise(h, c.err)
                 ELSE Ok([h EXCEPT ![get_cache(h, config)].cache =
                             @ \cup {[name |-> name, key |-> key, val |-> c.v]}],
                         PyS(c.v)))

\* the variant of set_cache that stores the dict it is given, not a copy
set_cache_shared(h, conf, cache) == [h EXCEPT ![conf].cacheref = cache]

\* OmegaConf.set_cache(conf, cache): conf takes a deep copy of the dict
\* cache, a new dict with the same entries
set_cache(h, conf, cache) ==
    [Append(h, [NewCache EXCEPT !.cache = h[cache].cache])
        EXCEPT ![conf].cacheref = Len(h) + 1]

\* OmegaConf.clear_cache(conf): set_cache(conf, defaultdict(dict, {}))
clear_cache(h, conf) == set_cache(Append(h, NewCache), conf, Len(h) + 1)

\* OmegaConf.copy_cache(from_config, to_config)
copy_cache(h, from_config, to_config) ==
    set_cache(h, to_config, get_cache(h, from_config))

\* get_value_kind of a Python value or node (the Container cases first)
ValueKindOf(h, value) ==
    IF value.t = "n" /\ IsContainer(h, value.id)
    THEN IF _node_is_interpolation(h, value.id) \/ _is_missing(h, value.id)
         THEN "MANDATORY_MISSING" ELSE "VALUE"
    ELSE IF value.t = "n" THEN get_value_kind(h[value.id].val)
    ELSE IF value.t = "s" THEN get_value_kind(value.v)
    ELSE "VALUE"

\* _get_value of a node: None for a None container, the raw value of a
\* ValueNode, else the container itself
_get_value(h, n) ==
    IF n = 0 THEN PyNone
    ELSE IF IsContainer(h, n)
         THEN IF _is_none(h, n) THEN PyNone ELSE PyN(n)
         ELSE PyS(h[n].val)

\* the dotted path toks[i..] as a sequence of keys
RECURSIVE PathKeys(_, _)
PathKeys(toks, i) ==
    IF i > Len(toks) THEN <<>>
    ELSE IF toks[i] = "." THEN PathKeys(toks, i + 1)
    ELSE <<toks[i]>> \o PathKeys(toks, i + 1)

\* _select_one: the child of container c at key (0 for None), or an error
_select_one(h, c, key) ==
    IF h[c].kind = "dict"
    THEN Bind(get_node_ex(h, c, key, PyNone, FALSE),
              LAMBDA r : IF r.ret.id # 0
                         THEN Bind(get_node(h, c, key),
                                   LAMBDA g : Ok(h, g.ret.id))
                         ELSE Ok(h, 0))
    ELSE IF h[c].kind = "list"
         THEN IF key \notin Digits \cup {"0"} THEN Raise(h, "TypeError")
              ELSE Let(CHOOSE j \in 0..3 : <<"0", "1", "2", "3">>[j + 1] = key,
                       LAMBDA idx : IF idx + 1 > Len(h[c].kids) THEN Ok(h, 0)
                                    ELSE Ok(h, h[c].kids[idx + 1]))
    ELSE Raise(h, "AssertionError")

RECURSIVE Select(_, _, _, _)
Select(h, c, keys, i) ==
    IF i > Len(keys) THEN Ok(h, c)
    ELSE Bind(_select_one(h, c, keys[i]),
              LAMBDA r : IF r.ret = 0 THEN Ok(h, 0)
                         ELSE Select(h, r.ret, keys, i + 1))

RECURSIVE ResolveValue(_, _, _, _, _)
RECURSIVE _resolve_single(_, _, _, _, _)
RECURSIVE _resolve_str(_, _, _, _, _, _, _)

\* str(value) as tokens, for a string template
StrToks(value) ==
    IF value.t = "s" THEN IF value.v = NoneV THEN <<"None">> ELSE value.v.s
    ELSE <<"{...}">>

\* one placeholder ${...}: toks are the tokens between the braces
_resolve_single(h, reg, self, toks, depth) ==
    LET typed(w) ==
            IF w > 1 /\ w <= Len(toks) /\ toks[w] = ":"
            THEN LET name == SubSeq(toks, 1, w - 1)
                 IN IF ~Registered(reg, name)
                    THEN Raise(h, "UnsupportedInterpolationType")
                    ELSE caching(h, ResolverOf(reg, name), name,
                                 _get_root(h, self),
                                 SubSeq(toks, w + 1, Len(toks)))
            ELSE Bind(Select(h, _get_root(h, self), PathKeys(toks, 1), 1),
                      LAMBDA s :
                          IF s.ret = 0 THEN Raise(h, "KeyError")
                          ELSE ResolveValue(h, reg, s.ret, _get_value(h, s.ret),
                                            depth + 1))
    IN IF depth > MaxResolveDepth THEN Raise(h, "RecursionError")
       ELSE typed(RunEnd(toks, 1, WordToks))

\* the template toks[i..] with every placeholder replaced by its resolution
_resolve_str(h, reg, self, toks, i, acc, depth) ==
    IF i > Len(toks) THEN Ok(h, PyS(StrV(acc)))
    ELSE LET from(e) ==
                 IF e = 0
                 THEN Ok(h, [e |-> i, s |-> <<toks[i]>>])
                 ELSE Bind(_resolve_single(h, reg, self,
                                           SubSeq(toks, i + 1, e - 1), depth),
                           LAMBDA r : Ok(r.h, [e |-> e, s |-> StrToks(r.ret)]))
         IN Bind(from(MatchAt(toks, i)),
                 LAMBDA r : _resolve_str(r.h, reg, self, toks, r.ret.e + 1,
                                         acc \o r.ret.s, depth))

\* the value with its interpolations resolved; self is the node holding it
ResolveValue(h, reg, self, value, depth) ==
    LET resolve(kind) ==
            IF kind = "INTERPOLATION"
            THEN _resolve_single(h, reg, self,
                                 SubSeq(value.v.s, 2, Len(value.v.s) - 1), depth)
            ELSE IF kind = "STR_INTERPOLATION"
                 THEN _resolve_str(h, reg, self, value.v.s, 1, <<>>, depth)
            ELSE Ok(h, value)
    IN resolve(IF value.t = "s" THEN get_value_kind(value.v) ELSE "VALUE")

\* value is [id, dflt] as get_node_ex returns it
_resolve_with_default(h, reg, self, value, default_value) ==
    LET defaulted(v0) ==
            IF default_value # PyNone
               /\ (v0 = PyNone \/ ValueKindOf(h, v0) = "MANDATORY_MISSING")
            THEN default_value ELSE v0
    IN Bind(ResolveValue(h, reg, IF value.id # 0 THEN value.id ELSE self,
                         defaulted(IF value.dflt THEN default_value
                                   ELSE _get_value(h, value.id)),
                         1),
            LAMBDA r : IF ValueKindOf(r.h, r.ret) = "MANDATORY_MISSING"
                       THEN Raise(r.h, "MissingMandatoryValue")
                       ELSE r)

\* DictConfig.get(key, default_value)
get(h, reg, n, key, default_value) ==
    LET k == _validate_and_normalize_key(key)
    IN IF k.err # "" THEN Raise(h, k.err)
       ELSE Bind(get_node_ex(h, n, k.key, default_value, TRUE),
                 LAMBDA node : _resolve_with_default(h, reg, n, node.ret,
                                                     default_value))

\* the variant of __getitem__ that returns the stored value unresolved
getitem_unresolved(h, reg, n, key) ==
    Let(get_node_ex(h, n, key, PyNone, TRUE),
        LAMBDA node : IF node.err # "" THEN Raise(h, "KeyError")
                      ELSE IF node.ret.dflt THEN Ok(h, PyNone)
                      ELSE Ok(h, _get_value(h, node.ret.id)))

\* DictConfig.__getitem__(key)
__getitem__(h, reg, n, key) ==
    Let(get(h, reg, n, key, PyNone),
        LAMBDA r : IF r.err = "AttributeError" THEN Raise(r.h, "KeyError") ELSE r)

\* the variant of __contains__ that lets MissingMandatoryValue escape
contains_no_catch(h, reg, n, key) ==
    LET k == _validate_and_normalize_key(key)
        resolved(node) ==
            IF node = 0 THEN Ok(h, FALSE)
            ELSE Let(_resolve_with_default(h, reg, n,
                                           [id |-> node, dflt |-> FALSE], PyNone),
                     LAMBDA r :
                         IF r.err = "" THEN Ok(r.h, TRUE)
                         ELSE IF r.err = "UnsupportedInterpolationType"
                              THEN Ok(r.h, TRUE)
                         ELSE IF r.err = "KeyError" THEN Ok(r.h, FALSE)
                         ELSE r)
    IN IF k.err # "" THEN Raise(h, k.err)
       ELSE Let(get_node(h, n, k.key),
                LAMBDA g :
                    IF g.err \in {"KeyError", "AttributeError"} THEN Ok(h, FALSE)
                    ELSE IF g.err # "" THEN g
                    ELSE resolved(g.ret.id))

\* DictConfig.__contains__(key)
__contains__(h, reg, n, key) ==
    LET k == _validate_and_normalize_key(key)
        resolved(node) ==
            IF node = 0 THEN Ok(h, FALSE)
            ELSE Let(_resolve_with_default(h, reg, n,
                                           [id |-> node, dflt |-> FALSE], PyNone),
                     LAMBDA r :
                         IF r.err = "" THEN Ok(r.h, TRUE)
                         ELSE IF r.err = "UnsupportedInterpolationType"
                              THEN Ok(r.h, TRUE)
                         ELSE IF r.err \in {"MissingMandatoryValue", "KeyError"}
                              THEN Ok(r.h, FALSE)
                         ELSE r)
    IN IF k.err # "" THEN Raise(h, k.err)
       ELSE Let(get_node(h, n, k.key),
                LAMBDA g :
                    IF g.err \in {"KeyError", "AttributeError"} THEN Ok(h, FALSE)
                    ELSE IF g.err # "" THEN g
                    ELSE resolved(g.ret.id))

Marker == PyS(StrV(<<"__marker">>))

\* DictConfig.pop(key, default)
pop(h, reg, n, key, default) ==
    LET k == _validate_and_normalize_key(key)
        popped(i) ==
            LET Drop(q) == SubSeq(q, 1, i - 1) \o SubSeq(q, i + 1, Len(q))
            IN Bind(_resolve_with_default(
                        IF i = 0 THEN h
                        ELSE [h EXCEPT ![n].keys = Drop(@), ![n].kids = Drop(@)],
                        reg, n,
                        IF i = 0 THEN [id |-> 0, dflt |-> TRUE]
                        ELSE [id |-> h[n].kids[i], dflt |-> FALSE],
                        default),
                    LAMBDA r : IF r.ret = Marker THEN Raise(r.h, "KeyError")
                               ELSE r)
    IN IF k.err # "" THEN Raise(h, k.err)
       ELSE IF _get_flag(h, n, "readonly") = "true"
            THEN Raise(h, "ReadonlyConfigError")
       ELSE IF h[n].ctype # "map" THEN Raise(h, "AttributeError")
       ELSE popped(IndexOf(h[n].keys, k.key, 1))

(***************************************************************************)
(* The context managers flag_override, read_write and open_dict.  A with   *)
(* statement is one call: the flag is set, the body runs (body is one      *)
(* statement on the config, or pass), and the flag is set back in the      *)
(* finally clause, also when the body raised.                              *)
(***************************************************************************)
\* OmegaConf.set_readonly(conf, value), OmegaConf.set_struct(conf, value)
set_readonly(h, conf, value) == _set_flag(h, conf, "readonly", value)
set_struct(h, conf, value) == _set_flag(h, conf, "struct", value)

\* the body of a with statement on config
RunBody(h, reg, config, body) ==
    CASE body.op = "set" -> __setitem__(h, config, body.key, body.val)
      [] body.op = "pop" -> pop(h, reg, config, body.key, Marker)
      [] OTHER -> Ok(h, config)

\* with flag_override(config, name, value): body
flag_override(h, reg, config, name, value, body) ==
    LET prev_state == _get_flag(h, config, name)
    IN Let(RunBody(_set_flag(h, config, name, value), reg, config, body),
           LAMBDA r : [r EXCEPT !.h = _set_flag(r.h, config, name, prev_state)])

\* with read_write(config): body
read_write(h, reg, config, body) ==
    LET prev_state == _get_node_flag(h, config, "readonly")
    IN Let(RunBody(set_readonly(h, config, "false"), reg, config, body),
           LAMBDA r : [r EXCEPT !.h = set_readonly(r.h, config, prev_state)])

\* with open_dict(config): body
open_dict(h, reg, config, body) ==
    LET prev_state == _get_node_flag(h, config, "struct")
    IN Let(RunBody(set_struct(h, config, "false"), reg, config, body),
           LAMBDA r : [r EXCEPT !.h = set_struct(r.h, config, prev_state)])

(***************************************************************************)
(* Equality.                                                               *)
(***************************************************************************)
\* number of characters of a token
TokLen(tok) ==
    CASE tok \in {"???", "unk", "env"} -> 3
      [] tok \in {"${", "\\,", "\\ "} -> 2
      [] OTHER -> 1

RECURSIVE StrLen(_)
StrLen(toks) == IF toks = <<>> THEN 0 ELSE TokLen(Head(toks)) + StrLen(Tail(toks))

\* BaseContainer.__len__: len() of the content, whatever it is
__len__(h, n) ==
    IF h[n].ctype = "str" THEN StrLen(h[n].val.s)
    ELSE IF h[n].kind = "dict" THEN Len(h[n].keys) ELSE Len(h[n].kids)

\* keys(): empty for missing, interpolation and None content
keys(h, n) == IF h[n].ctype = "map" THEN h[n].keys ELSE <<>>

RECURSIVE _dict_conf_eq(_, _, _)
RECURSIVE _list_eq(_, _, _)
RECURSIVE NodeEq(_, _, _)

\* BaseContainer._item_eq: the unresolved children compared
NodeEq(h, n1, n2) ==
    IF n1 = 0 \/ n2 = 0 THEN n1 = n2
    ELSE IF ValueKindOf(h, PyN(n1)) = "MANDATORY_MISSING"
            /\ ValueKindOf(h, PyN(n2)) = "MANDATORY_MISSING" THEN TRUE
    ELSE IF h[n1].kind = "dict" /\ h[n2].kind = "dict" THEN _dict_conf_eq(h, n1, n2)
    ELSE IF h[n1].kind = "list" /\ h[n2].kind = "list" THEN _list_eq(h, n1, n2)
    ELSE IF IsContainer(h, n1) \/ IsContainer(h, n2)
         THEN _get_value(h, n1) = PyNone /\ _get_value(h, n2) = PyNone
    ELSE h[n1].val = h[n2].val

_item_eq(h, c1, k1, c2, k2) == NodeEq(h, ContentGet(h, c1, k1), ContentGet(h, c2, k2))

_list_eq(h, l1, l2) ==
    LET l1_none == h[l1].ctype = "none"
        l2_none == h[l2].ctype = "none"
    IN IF l1_none /\ l2_none THEN TRUE
       ELSE IF l1_none # l2_none THEN FALSE
       ELSE IF __len__(h, l1) # __len__(h, l2) THEN FALSE
       ELSE \A i \in 1..Len(h[l1].kids) :
               i <= Len(h[l2].kids) /\ NodeEq(h, h[l1].kids[i], h[l2].kids[i])

\* the variant of _dict_conf_eq that compares the keys position by position
dict_conf_eq_ordered(h, d1, d2) ==
    LET d1_none == h[d1].ctype = "none"
        d2_none == h[d2].ctype = "none"
    IN IF d1_none /\ d2_none THEN TRUE
       ELSE IF d1_none # d2_none THEN FALSE
       ELSE IF __len__(h, d1) # __len__(h, d2) THEN FALSE
       ELSE \A i \in 1..Len(keys(h, d1)) :
               /\ i <= Len(keys(h, d2))
               /\ keys(h, d1)[i] = keys(h, d2)[i]
               /\ NodeEq(h, h[d1].kids[i], h[d2].kids[i])

_dict_conf_eq(h, d1, d2) ==
    LET d1_none == h[d1].ctype = "none"
        d2_none == h[d2].ctype = "none"
    IN IF d1_none /\ d2_none THEN TRUE
       ELSE IF d1_none # d2_none THEN FALSE
       ELSE IF __len__(h, d1) # __len__(h, d2) THEN FALSE
       ELSE \A i \in 1..Len(keys(h, d1)) :
               LET k == keys(h, d1)[i]
               IN KeyInContent(h, d2, k) /\ _item_eq(h, d1, k, d2, k)

\* DictConfig.__eq__(other); NotImplemented counts as unequal
__eq__(h, n, other) ==
    IF other = PyNone THEN h[n].ctype = "none"
    ELSE IF other.t \in {"d", "sc"}
         THEN Let(create(h, other),
                  LAMBDA c : c.err = "" /\ _dict_conf_eq(c.h, n, c.ret))
    ELSE IF other.t = "n" /\ h[other.id].kind = "dict"
         THEN _dict_conf_eq(h, n, other.id)
    ELSE FALSE

(***************************************************************************)
(* Inputs.                                                                 *)
(***************************************************************************)
P1 == PyS(IntV("1"))
P2 == PyS(IntV("2"))
P3 == PyS(IntV("3"))
PMissing == PyS(MISSING)
\* "${a}", "${b}" and "${unk:x}" (no resolver is registered as unk)
RefA == PyS(II(<<"a">>))
RefB == PyS(II(<<"b">>))
RefUnk == PyS(II(<<"unk", ":", "x">>))

AVals ==
    {P1, PMissing, RefB, PyNone,
     PyD(<<KV("a", P1)>>),
     PyD(<<KV("a", P2), KV("b", PMissing)>>),
     PyL(<<KV("", P1)>>),
     PyL(<<KV("", PyD(<<KV("a", P1)>>)), KV("", P2)>>)}

BVals == {P2, RefA, RefUnk}

AItems == {<<>>} \cup {<<KV("a", v)>> : v \in AVals}
BItems == {<<>>} \cup {<<KV("b", v)>> : v \in BVals}

DictInputs == {PyD(a \o b) : a \in AItems, b \in BItems}

ListInputs ==
    {PyL(<<KV("", PyD(<<KV("a", P1)>>)), KV("", P2)>>),
     PyL(<<KV("", PyD(<<KV("b", P1)>>))>>)}

SchemaInputs ==
    {PySC("User"), PySC("Group"), PySC("Plugin"), PySC("ConcretePlugin"),
     PyD(<<KV("a", PySC("User"))>>), PyD(<<KV("a", PySC("Group"))>>)}

Inputs == DictInputs \cup ListInputs \cup SchemaInputs

\* the third config of a three-way merge
Inputs3 == {PyD(<<KV("a", P3)>>), PyD(<<KV("b", PyD(<<KV("b", P3)>>))>>)}

Slots == {"c1", "c2", "c3", "r"}

\* the keys the merged configs use
MergeKeySet == {"a", "b"}

(***************************************************************************)
(* The state machine.  heap holds every object, cfg the configs the        *)
(* program holds (0: none), prev the heap before the last operation, last  *)
(* the last operation with its outcome, resolvers the resolver registry.   *)
(***************************************************************************)
DefaultResolvers == {[name |-> <<"env">>, fn |-> "env"]}

NoOp == [op |-> "init", args |-> <<>>, ids |-> <<>>, key |-> "", val |-> PyNone,
         err |-> "", ret |-> PyNone, reg |-> {}]

\* c1, c2 and c3 are created from Python values; c1 may be set readonly
InitMerge ==
    \E t1 \in Inputs, t2 \in Inputs, t3 \in Inputs3, ro \in {"unset", "true"} :
        LET init(r1, r2, r3) ==
                /\ heap = _set_flag(r3.h, r1.ret, "readonly", ro)
                /\ cfg = [c1 |-> r1.ret, c2 |-> r2.ret, c3 |-> r3.ret, r |-> 0]
            third(r1, r2) == init(r1, r2, create(r2.h, t3))
            second(r1) == third(r1, create(r1.h, t2))
        IN /\ second(create(<<>>, t1))
           /\ prev = heap
           /\ last = NoOp
           /\ ops = 0
           /\ resolvers = DefaultResolvers

Others(slots) == [i \in 1..Len(slots) |-> PyN(cfg[slots[i]])]

MergeArgs == {<<"c1", "c2">>, <<"c1", "c2", "c3">>, <<"c1", "c1">>, <<"r", "c3">>}

\* r = OmegaConf.merge(*slots)
Merge(slots) ==
    /\ ops < MaxOps
    /\ \A i \in 1..Len(slots) : cfg[slots[i]] # 0
    /\ LET done(m) ==
               /\ heap' = m.h
               /\ cfg' = [cfg EXCEPT !.r = IF m.err = "" THEN m.ret ELSE 0]
               /\ last' = [NoOp EXCEPT !.op = "merge", !.args = slots,
                                       !.ids = [i \in 1..Len(slots) |-> cfg[slots[i]]],
                                       !.err = m.err]
       IN done(merge(heap, Others(slots)))
    /\ prev' = heap
    /\ ops' = ops + 1
    /\ UNCHANGED resolvers

\* cfg[slot][key]
GetItem(slot, key) ==
    /\ cfg[slot] # 0
    /\ heap[cfg[slot]].kind = "dict"
    /\ LET done(g) ==
               /\ heap' = g.h
               /\ last' = [NoOp EXCEPT !.op = "get", !.args = <<slot>>,
                                       !.ids = <<cfg[slot]>>, !.key = key,
                                       !.err = g.err,
                                       !.ret = IF g.err = "" THEN g.ret ELSE PyNone]
       IN done(__getitem__(heap, resolvers, cfg[slot], key))
    /\ prev' = heap
    /\ UNCHANGED <<cfg, ops, resolvers>>

\* key in cfg[slot]
Contains(slot, key) ==
    /\ cfg[slot] # 0
    /\ heap[cfg[slot]].kind = "dict"
    /\ LET done(c) ==
               /\ heap' = c.h
               /\ last' = [NoOp EXCEPT !.op = "contains", !.args = <<slot>>,
                                       !.ids = <<cfg[slot]>>, !.key = key,
                                       !.err = c.err,
                                       !.ret = IF c.err = "" THEN PyS(BoolV(c.ret))
                                               ELSE PyNone]
       IN done(__contains__(heap, resolvers, cfg[slot], key))
    /\ prev' = heap
    /\ UNCHANGED <<cfg, ops, resolvers>>

NextMerge ==
    \/ \E slots \in MergeArgs : Merge(slots)
    \/ \E key \in MergeKeySet : GetItem("r", key)

Spec == InitMerge /\ [][NextMerge]_vars

(***************************************************************************)
(* The second state machine: one config c1, created from a Python value    *)
(* with its flags set, is deep-copied into c2, and either of the two is    *)
(* mutated (set, pop, merge_with, flags) and read (get, in), at the root   *)
(* or at the child under key "a".                                          *)
(***************************************************************************)
MaxMutations == 1

OpsInputs ==
    {PyD(<<>>),
     PyD(<<KV("a", P1), KV("b", RefA)>>),
     PyD(<<KV("a", PyD(<<KV("a", P1), KV("b", RefUnk)>>)), KV("b", RefUnk)>>),
     PyD(<<KV("a", PMissing), KV("b", PyS(II(<<"env", ":", "x">>)))>>),
     PyD(<<KV("a", PySC("User")), KV("b", PyNone)>>),
     PyD(<<KV("a", PySC("Plugin"))>>),
     PySC("User"),
     PySC("Plugin"),
     PySC("ConcretePlugin"),
     PySC("PluginHolder"),
     PySC("Str2Str")}

SetVals ==
    {P1, PMissing, PyNone, PyS(StrV(<<"x">>)), PyD(<<KV("a", P2)>>),
     PySC("User"), PySC("Group"), PySC("ConcretePlugin")}

\* the default_value arguments of get: None for no default
GetDefaults == {NoDefaultArg, P3, PyS(StrV(<<"x">>))}

\* the arguments of _promote: None, schema types and a value that is none
PromoteTypes == {PyNone, PySC("User"), PySC("ConcretePlugin"), PySC("Group"), P1}

MergeVals ==
    {PyD(<<KV("a", P2)>>), PyD(<<KV("a", PyD(<<KV("b", P3)>>))>>),
     PyD(<<KV("a", PMissing)>>), PyD(<<KV("a", PySC("Group"))>>),
     PyD(<<KV("a", PySC("ConcretePlugin"))>>),
     PyD(<<KV("a", PyNone)>>),
     PySC("Group"), PySC("ConcretePlugin"), PyL(<<KV("", P1)>>), PyNone}

CopySlots == {"c1", "c2"}
Places == {"", "a"}
FlagNames == {"readonly", "struct"}
FlagVals == {"unset", "true", "false"}

InitOps ==
    \E t \in OpsInputs, ro \in {"unset", "true"}, st \in {"unset", "true"} :
        LET init(r1) ==
                /\ heap = _set_flag(_set_flag(r1.h, r1.ret, "readonly", ro),
                                    r1.ret, "struct", st)
                /\ cfg = [c1 |-> r1.ret, c2 |-> 0, c3 |-> 0, r |-> 0]
        IN /\ init(create(<<>>, t))
           /\ prev = heap
           /\ last = NoOp
           /\ ops = 0
           /\ resolvers = DefaultResolvers

\* the container an operation on (slot, at) acts on: the config itself, or
\* its child under the key at (0 when there is none)
At(slot, at) ==
    IF cfg[slot] = 0 THEN 0
    ELSE IF at = "" THEN cfg[slot]
    ELSE IF heap[cfg[slot]].ctype = "map" THEN ContentGet(heap, cfg[slot], at)
    ELSE 0

IsDictAt(slot, at) == At(slot, at) # 0 /\ heap[At(slot, at)].kind = "dict"

Done(op, slot, at, key, val, r) ==
    /\ heap' = r.h
    /\ last' = [NoOp EXCEPT !.op = op, !.args = <<slot, at>>,
                            !.ids = <<At(slot, at)>>, !.key = key,
                            !.val = val, !.err = r.err,
                            !.ret = IF r.err = "" /\ op \in {"get", "pop"}
                                    THEN r.ret ELSE PyNone]
    /\ prev' = heap

\* c2 = copy.deepcopy(c1)
DeepCopy ==
    /\ cfg.c1 # 0 /\ cfg.c2 = 0
    /\ LET done(r) == /\ Done("copy", "c1", "", "", PyNone, r)
                      /\ cfg' = [cfg EXCEPT !.c2 = r.ret]
       IN done(__deepcopy__(heap, cfg.c1))
    /\ UNCHANGED <<ops, resolvers>>

\* cfg[key] = value
SetItem(slot, at, key, value) ==
    /\ ops < MaxMutations
    /\ IsDictAt(slot, at)
    /\ Done("set", slot, at, key, value,
            __setitem__(heap, At(slot, at), key, value))
    /\ ops' = ops + 1
    /\ UNCHANGED <<cfg, resolvers>>

\* cfg.get(key, default_value)
Get(slot, at, key, default_value) ==
    /\ IsDictAt(slot, at)
    /\ LET done(g) ==
               /\ heap' = g.h
               /\ last' = [NoOp EXCEPT !.op = "get_key", !.args = <<slot, at>>,
                                       !.ids = <<At(slot, at)>>, !.key = key,
                                       !.val = default_value, !.err = g.err,
                                       !.ret = IF g.err = "" THEN g.ret ELSE PyNone]
       IN done(get(heap, resolvers, At(slot, at), key, default_value))
    /\ prev' = heap
    /\ UNCHANGED <<cfg, ops, resolvers>>

\* cfg._promote(type_or_prototype)
Promote(slot, at, type_or_prototype) ==
    /\ ops < MaxMutations
    /\ IsDictAt(slot, at)
    /\ Done("promote", slot, at, "", type_or_prototype,
            _promote(heap, At(slot, at), type_or_prototype))
    /\ ops' = ops + 1
    /\ UNCHANGED <<cfg, resolvers>>

\* cfg.pop(key)
Pop(slot, at, key) ==
    /\ ops < MaxMutations
    /\ IsDictAt(slot, at)
    /\ Done("pop", slot, at, key, PyNone,
            pop(heap, resolvers, At(slot, at), key, Marker))
    /\ ops' = ops + 1
    /\ UNCHANGED <<cfg, resolvers>>

\* cfg.merge_with(other), other a Python value or the other config
MergeWith(slot, other) ==
    /\ ops < MaxMutations
    /\ cfg[slot] # 0
    /\ other.t = "n" => other.id # 0
    /\ Done("merge_with", slot, "", "", other,
            merge_with(heap, cfg[slot], <<other>>))
    /\ ops' = ops + 1
    /\ UNCHANGED <<cfg, resolvers>>

\* OmegaConf.set_readonly(cfg, value), OmegaConf.set_struct(cfg, value)
SetFlag(slot, at, flag, value) ==
    /\ ops < MaxMutations
    /\ At(slot, at) # 0 /\ IsContainer(heap, At(slot, at))
    /\ Done("flag", slot, at, flag, PyS(StrV(<<value>>)),
            Ok(_set_flag(heap, At(slot, at), flag, value), 0))
    /\ ops' = ops + 1
    /\ UNCHANGED <<cfg, resolvers>>

NextOps ==
    \/ DeepCopy
    \/ \E slot \in CopySlots, at \in Places, key \in StrKeys, value \in SetVals :
          SetItem(slot, at, key, value)
    \/ \E slot \in CopySlots, at \in Places, key \in StrKeys : Pop(slot, at, key)
    \/ \E slot \in CopySlots, other \in MergeVals : MergeWith(slot, other)
    \/ \E slot \in CopySlots : MergeWith(slot, PyN(cfg[CHOOSE o \in CopySlots : o # slot]))
    \/ \E slot \in CopySlots, at \in Places, flag \in FlagNames, value \in FlagVals :
          SetFlag(slot, at, flag, value)
    \/ \E slot \in CopySlots, key \in StrKeys : GetItem(slot, key)
    \/ \E slot \in CopySlots, key \in StrKeys : Contains(slot, key)

SpecOps == InitOps /\ [][NextOps]_vars

(***************************************************************************)
(* The same configs read with cfg.get(key, default_value) after a flag     *)
(* change or a pop.                                                        *)
(***************************************************************************)
NextAccess ==
    \/ \E at \in Places, key \in StrKeys : Pop("c1", at, key)
    \/ \E at \in Places, flag \in FlagNames, value \in FlagVals :
          SetFlag("c1", at, flag, value)
    \/ \E at \in Places, key \in StrKeys, d \in GetDefaults :
          Get("c1", at, key, d)
    \/ \E at \in Places, t \in PromoteTypes : Promote("c1", at, t)

SpecAccess == InitOps /\ [][NextAccess]_vars

(***************************************************************************)
(* The same kind of config, with flags set on the config and on its child  *)
(* under a, on which with statements of the three context managers run.    *)
(***************************************************************************)
FlagInputs ==
    {PyD(<<KV("a", PyD(<<KV("a", P1)>>))>>), PySC("PluginHolder")}

\* the bodies of the with statements: pass, config["c"] = 1, config.pop("c")
FlagBodies ==
    {[op |-> "pass", key |-> "", val |-> PyNone],
     [op |-> "set", key |-> "c", val |-> P1],
     [op |-> "pop", key |-> "c", val |-> PyNone]}

InitFlags ==
    \E t \in FlagInputs, ro \in FlagVals, st \in FlagVals,
       cro \in FlagVals, cst \in FlagVals :
        LET flagged(h, root, kid) ==
                /\ heap = set_struct(set_readonly(set_struct(set_readonly(
                              h, root, ro), root, st), kid, cro), kid, cst)
                /\ cfg = [c1 |-> root, c2 |-> 0, c3 |-> 0, r |-> 0]
            init(r1) == flagged(r1.h, r1.ret, ContentGet(r1.h, r1.ret, "a"))
        IN /\ init(create(<<>>, t))
           /\ prev = heap
           /\ last = NoOp
           /\ ops = 0
           /\ resolvers = DefaultResolvers

\* with flag_override(cfg, name, value): body
FlagOverride(at, name, value, body) ==
    /\ ops < MaxMutations
    /\ IsDictAt("c1", at)
    /\ Done("flag_override", "c1", at, name, PyS(StrV(<<value>>)),
            flag_override(heap, resolvers, At("c1", at), name, value, body))
    /\ ops' = ops + 1
    /\ UNCHANGED <<cfg, resolvers>>

\* with read_write(cfg): body
ReadWrite(at, body) ==
    /\ ops < MaxMutations
    /\ IsDictAt("c1", at)
    /\ Done("read_write", "c1", at, "readonly", PyNone,
            read_write(heap, resolvers, At("c1", at), body))
    /\ ops' = ops + 1
    /\ UNCHANGED <<cfg, resolvers>>

\* with open_dict(cfg): body
OpenDict(at, body) ==
    /\ ops < MaxMutations
    /\ IsDictAt("c1", at)
    /\ Done("open_dict", "c1", at, "struct", PyNone,
            open_dict(heap, resolvers, At("c1", at), body))
    /\ ops' = ops + 1
    /\ UNCHANGED <<cfg, resolvers>>

NextFlags ==
    \/ \E at \in Places, name \in FlagNames, value \in FlagVals,
          body \in FlagBodies : FlagOverride(at, name, value, body)
    \/ \E at \in Places, body \in FlagBodies : ReadWrite(at, body)
    \/ \E at \in Places, body \in FlagBodies : OpenDict(at, body)

SpecFlags == InitFlags /\ [][NextFlags]_vars

(***************************************************************************)
(* The third state machine: one config c1 whose values are interpolations  *)
(* of resolvers, read while resolvers are registered and the registry is   *)
(* cleared.  last.reg is the registry before the last registry operation.  *)
(***************************************************************************)
MaxRegistryOps == 3

RefF == PyS(II(<<"f", ":", "x">>))
RefF1 == PyS(II(<<"f", ":", "1">>))
RefEnv == PyS(II(<<"env", ":", "x">>))

RegInputs ==
    {PyD(<<KV("a", RefF), KV("b", RefF), KV("c", RefEnv)>>),
     PyD(<<KV("a", RefF), KV("b", RefF1), KV("c", RefUnk)>>)}

ResolverNames == {<<"f">>, <<"unk">>, <<"env">>}
ResolverFns == {"f1", "f2", "notcallable"}

InitReg ==
    \E t \in RegInputs :
        LET init(r1) ==
                /\ heap = r1.h
                /\ cfg = [c1 |-> r1.ret, c2 |-> 0, c3 |-> 0, r |-> 0]
        IN /\ init(create(<<>>, t))
           /\ prev = heap
           /\ last = NoOp
           /\ ops = 0
           /\ resolvers = DefaultResolvers

\* OmegaConf.register_resolver(name, fn)
Register(name, fn) ==
    /\ ops < MaxRegistryOps
    /\ LET done(r) ==
               /\ resolvers' = r.reg
               /\ last' = [NoOp EXCEPT !.op = "register", !.args = <<name[1], fn>>,
                                       !.err = r.err, !.reg = resolvers]
       IN done(register_resolver(resolvers, name, fn))
    /\ prev' = heap
    /\ ops' = ops + 1
    /\ UNCHANGED <<heap, cfg>>

\* OmegaConf.clear_resolvers()
ClearResolvers ==
    /\ ops < MaxRegistryOps
    /\ LET done(r) ==
               /\ resolvers' = r.reg
               /\ last' = [NoOp EXCEPT !.op = "clear", !.err = r.err,
                                       !.reg = resolvers]
       IN done(clear_resolvers(resolvers))
    /\ prev' = heap
    /\ ops' = ops + 1
    /\ UNCHANGED <<heap, cfg>>

\* OmegaConf.get_resolver(name)
GetResolver(name) ==
    /\ last' = [NoOp EXCEPT !.op = "get_resolver", !.args = <<name[1]>>,
                            !.ret = PyS(StrV(<<get_resolver(resolvers, name)>>)),
                            !.reg = resolvers]
    /\ prev' = heap
    /\ UNCHANGED <<heap, cfg, ops, resolvers>>

NextReg ==
    \/ \E name \in ResolverNames, fn \in ResolverFns : Register(name, fn)
    \/ ClearResolvers
    \/ \E name \in ResolverNames : GetResolver(name)
    \/ \E key \in StrKeys : GetItem("c1", key)

SpecReg == InitReg /\ [][NextReg]_vars

(***************************************************************************)
(* The fourth state machine: configs c1 and c2 are created from Python     *)
(* values and compared with ==, while resolvers are registered.            *)
(***************************************************************************)
CreateInputs ==
    {PyD(<<>>),
     PyD(<<KV("a", P1), KV("b", P2)>>),
     PyD(<<KV("b", P2), KV("a", P1)>>),
     PyD(<<KV("a", P2), KV("b", P2)>>),
     PyD(<<KV("a", RefB), KV("b", P2)>>),
     PyD(<<KV("a", RefF), KV("b", PMissing)>>),
     PyD(<<KV("a", PyD(<<KV("a", P1), KV("b", RefUnk)>>)), KV("c", PyNone)>>),
     PyD(<<KV("c", PyNone), KV("a", PyD(<<KV("b", RefUnk), KV("a", P1)>>))>>),
     PyD(<<KV("a", PyD(<<KV("a", P1)>>)), KV("c", PyNone)>>),
     PyD(<<KV("a", PyNone), KV("b", PyL(<<KV("", P1), KV("", P2)>>))>>),
     PyD(<<KV("b", PyS(BoolV(TRUE))), KV("a", PyD(<<>>)), KV("c", PyL(<<>>))>>),
     PyL(<<>>),
     PyL(<<KV("", P1), KV("", PyS(StrV(<<"x">>))),
           KV("", PyD(<<KV("b", PyL(<<KV("", P2)>>)), KV("a", PyNone)>>))>>),
     PyNone}

\* dataclass types and instances
StructuredInputs ==
    {PySC("Group"), PySC("ConcretePlugin"), PySC("PluginHolder"), PySC("Users"),
     PySC("NoDefaults"),
     PyObj("NoDefaults", <<KV("a", P2)>>),
     PyObj("ConcretePlugin", <<KV("b", P3)>>),
     PyObj("Group", <<KV("a", PyS(StrV(<<"x">>))), KV("b", PySC("User"))>>)}

InitCreate ==
    /\ heap = <<>>
    /\ cfg = [c1 |-> 0, c2 |-> 0, c3 |-> 0, r |-> 0]
    /\ prev = heap
    /\ last = NoOp
    /\ ops = 0
    /\ resolvers = DefaultResolvers

\* cfg = OmegaConf.create(obj): c1 first, then c2; the nodes of a create
\* that raised are garbage that no variable keeps
Create(slot, obj) ==
    /\ cfg[slot] = 0
    /\ slot = "c2" => cfg.c1 # 0
    /\ LET done(r) ==
               /\ heap' = IF r.err = "" THEN r.h ELSE heap
               /\ cfg' = IF r.err = "" THEN [cfg EXCEPT ![slot] = r.ret] ELSE cfg
               /\ last' = [NoOp EXCEPT !.op = "create", !.args = <<slot>>,
                                       !.val = obj, !.err = r.err,
                                       !.ids = <<IF r.err = "" THEN r.ret ELSE 0>>]
       IN done(create(heap, obj))
    /\ prev' = heap
    /\ UNCHANGED <<ops, resolvers>>

\* the right-hand sides of ==: None, a dict, c2 or its child under a
EqOthers ==
    {PyNone, PyD(<<KV("b", P2), KV("a", P1)>>)}
        \cup {PyN(At("c2", at)) : at \in {a \in Places : IsDictAt("c2", a)}}

\* cfg == other, for c1 or its child under a
Eq(at, other) ==
    /\ IsDictAt("c1", at)
    /\ last' = [NoOp EXCEPT !.op = "eq", !.args = <<"c1", at>>,
                            !.ids = <<At("c1", at)>>, !.val = other,
                            !.ret = PyS(BoolV(__eq__(heap, At("c1", at), other)))]
    /\ prev' = heap
    /\ UNCHANGED <<heap, cfg, ops, resolvers>>

\* OmegaConf.to_container(OmegaConf.create(obj), resolve=False), before c1
\* is created; the config is a temporary that no variable keeps
RoundTrip(obj) ==
    /\ cfg.c1 = 0
    /\ LET done(c) ==
               last' = [NoOp EXCEPT !.op = "round_trip", !.val = obj,
                                    !.err = c.err,
                                    !.ret = IF c.err = ""
                                            THEN to_container(c.h, c.ret)
                                            ELSE PyNone]
       IN done(create(heap, obj))
    /\ prev' = heap
    /\ UNCHANGED <<heap, cfg, ops, resolvers>>

\* the overrides of a merge onto c1: None, or c2
MergeOverrides == IF cfg.c2 # 0 THEN {PyNone, PyN(cfg.c2)} ELSE {PyNone}

\* r = OmegaConf.merge(c1, other)
MergeOther(other) ==
    /\ ops < MaxOps
    /\ cfg.c1 # 0
    /\ LET done(m) ==
               /\ heap' = m.h
               /\ cfg' = [cfg EXCEPT !.r = IF m.err = "" THEN m.ret ELSE 0]
               /\ last' = [NoOp EXCEPT !.op = "merge_other", !.args = <<"c1">>,
                                       !.ids = <<cfg.c1>>, !.val = other,
                                       !.err = m.err]
       IN done(merge(heap, <<PyN(cfg.c1), other>>))
    /\ prev' = heap
    /\ ops' = ops + 1
    /\ UNCHANGED resolvers

NextCreate ==
    \/ \E obj \in CreateInputs \cup StructuredInputs : Create("c1", obj)
    \/ \E obj \in CreateInputs : Create("c2", obj)
    \/ \E other \in MergeOverrides : MergeOther(other)
    \/ \E at \in Places : \E other \in EqOthers : Eq(at, other)
    \/ \E obj \in CreateInputs : RoundTrip(obj)
    \/ Register(<<"unk">>, "f1")
    \/ ClearResolvers

SpecCreate == InitCreate /\ [][NextCreate]_vars

(***************************************************************************)
(* The fifth state machine: resolver caches.  c1 is created with the       *)
(* resolver f registered and may be deep-copied into c2; the configs are   *)
(* read, and their caches are copied, set and cleared.                     *)
(***************************************************************************)
\* the dicts handed to set_cache
CacheDicts == {{[name |-> <<"f">>, key |-> <<"x">>, val |-> IntV("3")]}}

\* OmegaConf.register_resolver("f", f1); c1 = OmegaConf.create(t)
CacheInputs == {PyD(<<KV("a", RefF), KV("b", RefF1)>>)}

InitCache ==
    \E t \in CacheInputs :
        LET init(r1) ==
                /\ heap = r1.h
                /\ cfg = [c1 |-> r1.ret, c2 |-> 0, c3 |-> 0, r |-> 0]
        IN /\ init(create(<<>>, t))
           /\ prev = heap
           /\ last = NoOp
           /\ ops = 0
           /\ resolvers = register_resolver(DefaultResolvers, <<"f">>, "f1").reg

\* a cache operation on the config in slot that leaves the heap h
CacheDone(op, slot, from, h) ==
    /\ heap' = h
    /\ last' = [NoOp EXCEPT !.op = op, !.args = <<slot, from>>,
                            !.ids = <<cfg[slot]>>]
    /\ prev' = heap
    /\ ops' = ops + 1
    /\ UNCHANGED <<cfg, resolvers>>

\* OmegaConf.copy_cache(cfg[from], cfg[to])
CopyCache(from, to) ==
    /\ ops < MaxRegistryOps
    /\ cfg[from] # 0 /\ cfg[to] # 0
    /\ CacheDone("copy_cache", to, from, copy_cache(heap, cfg[from], cfg[to]))

\* OmegaConf.set_cache(cfg[slot], cache), cache a dict of the caller's
SetCache(slot, cache) ==
    /\ ops < MaxRegistryOps
    /\ cfg[slot] # 0
    /\ CacheDone("set_cache", slot, "",
                 set_cache(Append(heap, [NewCache EXCEPT !.cache = cache]),
                           cfg[slot], Len(heap) + 1))

\* OmegaConf.clear_cache(cfg[slot])
ClearCache(slot) ==
    /\ ops < MaxRegistryOps
    /\ cfg[slot] # 0
    /\ CacheDone("clear_cache", slot, "", clear_cache(heap, cfg[slot]))

NextCache ==
    \/ DeepCopy
    \/ \E slot \in CopySlots, key \in {"a", "b"} : GetItem(slot, key)
    \/ \E from \in CopySlots : CopyCache(from, CHOOSE to \in CopySlots : to # from)
    \/ \E cache \in CacheDicts : SetCache("c2", cache)
    \/ ClearCache("c1")

SpecCache == InitCache /\ [][NextCache]_vars

\* the same config while the registry changes: f is registered anew, c1 is
\* read and its cache is cleared
NextStale ==
    \/ Register(<<"f">>, "f2")
    \/ ClearResolvers
    \/ \E key \in {"a", "b"} : GetItem("c1", key)
    \/ ClearCache("c1")

SpecStale == InitCache /\ [][NextStale]_vars

(***************************************************************************)
(* The sixth state machine: get_value_kind.  A DictConfig is constructed   *)
(* from a content, and get_value_kind is applied to strings, to other      *)
(* Python values and to the nodes of the config.                           *)
(***************************************************************************)
MaxKindLen == 4

\* the tokens of the classified strings
KindToks == {"${", "}", "a", ":", "."}
KindStrings ==
    {PyS(StrV(s)) : s \in UNION {[1..n -> KindToks] : n \in 0..MaxKindLen}}
        \cup {PMissing, PyS(StrV(<<"???", "a">>))}
\* values that are not strings
KindOthers == {PyNone, P1, PyS(BoolV(TRUE)), PyD(<<>>), PyL(<<>>)}

\* the contents a DictConfig is constructed from
KindContents ==
    {PyNone, PMissing, RefA, PyS(StrV(<<"a", "${", "a", "}">>)), PyD(<<>>),
     PyD(<<KV("a", P1), KV("b", RefA), KV("c", PMissing)>>),
     PyD(<<KV("a", PyD(<<KV("a", PyNone)>>)),
           KV("b", PyS(StrV(<<"${", "a", "}", ".", "${", "b", "}">>)))>>)}

\* cfg = DictConfig(content)
InitKind ==
    \E content \in KindContents :
        LET init(r) == /\ heap = r.h
                       /\ cfg = [c1 |-> r.ret, c2 |-> 0, c3 |-> 0, r |-> 0]
        IN /\ init(DictConfig_init(<<>>, content, 0, "None", TRUE))
           /\ prev = heap
           /\ last = NoOp
           /\ ops = 0
           /\ resolvers = DefaultResolvers

\* the nodes of the config
KindNodes == {PyN(n) : n \in {m \in 1..Len(heap) : heap[m].kind # "cache"}}

\* get_value_kind(value), once on the constructed config
Classify(value) ==
    /\ last.op = "init"
    /\ last' = [NoOp EXCEPT !.op = "kind", !.val = value,
                            !.ret = PyS(StrV(<<ValueKindOf(heap, value)>>))]
    /\ prev' = heap
    /\ ops' = ops + 1
    /\ UNCHANGED <<heap, cfg, resolvers>>

NextKind ==
    \E value \in KindStrings \cup KindOthers \cup KindNodes : Classify(value)

SpecKind == InitKind /\ [][NextKind]_vars

(***************************************************************************)
(* The seventh state machine: c1 and c3 are created from nested values,    *)
(* c1 is deep-copied into c2, and the configs are merged.                  *)
(***************************************************************************)
ParentInputs ==
    {PyD(<<KV("a", PyD(<<KV("b", P1)>>))>>),
     PyD(<<KV("b", PyD(<<KV("b", PyD(<<KV("a", P3)>>))>>))>>),
     PyD(<<KV("a", PyL(<<KV("", PyD(<<KV("a", P1)>>)), KV("", P2)>>))>>),
     PyL(<<KV("", PyD(<<KV("a", P1)>>)), KV("", PyL(<<KV("", P2)>>))>>),
     PySC("Group"),
     PyD(<<KV("a", PySC("PluginHolder"))>>)}

InitParent ==
    \E t1 \in ParentInputs, t3 \in ParentInputs :
        LET init(r1, r3) ==
                /\ heap = r3.h
                /\ cfg = [c1 |-> r1.ret, c2 |-> 0, c3 |-> r3.ret, r |-> 0]
            second(r1) == init(r1, create(r1.h, t3))
        IN /\ second(create(<<>>, t1))
           /\ prev = heap
           /\ last = NoOp
           /\ ops = 0
           /\ resolvers = DefaultResolvers

ParentMergeArgs ==
    {<<"c1", "c3">>, <<"c2", "c3">>, <<"c3", "c2">>, <<"c1", "c3", "c2">>}

NextParent ==
    \/ DeepCopy
    \/ \E slots \in ParentMergeArgs : Merge(slots)

SpecParent == InitParent /\ [][NextParent]_vars

(***************************************************************************)
(* Properties of OmegaConf.merge.                                          *)
(***************************************************************************)
\* the merge that has just run, and its outcome
Merged == last.op = "merge"
MergedOk == Merged /\ last.err = ""
Dump(n) == to_container(heap, n)
DumpPrev(n) == to_container(prev, n)

\* C1: OmegaConf.merge never mutates an input: after the call, whether it
\* returned or raised, every input (the base and each override) has the
\* unresolved content and the object it had before the call.
C1_MergeLeavesInputs ==
    Merged =>
        \A i \in 1..Len(last.ids) :
            /\ Dump(last.ids[i]) = DumpPrev(last.ids[i])
            /\ heap[last.ids[i]] = prev[last.ids[i]]

\* a merge that returned a result whose content differs from the base's
C1_Witness ==
    /\ MergedOk
    /\ Len(last.ids) = 3
    /\ Dump(cfg.r) # Dump(last.ids[1])
    /\ Dump(cfg.r) # Dump(last.ids[3])

\* the item of a dumped map stored under key k (PyAbsent when there is none)
PyAbsent == [t |-> "absent"]
PyHas(t, k) == t.t = "d" /\ \E i \in 1..Len(t.items) : t.items[i].k = k
PyGet(t, k) ==
    IF PyHas(t, k)
    THEN t.items[CHOOSE i \in 1..Len(t.items) : t.items[i].k = k].x
    ELSE PyAbsent
PyKeys(t) == IF t.t = "d" THEN {t.items[i].k : i \in 1..Len(t.items)} ELSE {}

\* merge(merge(c1, c2), c3) computed on the heap before the call
Nested ==
    LET m12 == merge(prev, <<PyN(last.ids[1]), PyN(last.ids[2])>>)
    IN IF m12.err # "" THEN m12
       ELSE merge(m12.h, <<PyN(m12.ret), PyN(last.ids[3])>>)

\* value v as a value node of variant vtype stores it
StoredAs(vtype, v) ==
    IF IsStr(v) /\ get_value_kind(v) # "VALUE" THEN v
    ELSE validate_and_convert(vtype, v).v

\* the merged result holds override o's value at key k (converted to the
\* type of the field when the result's child at k is a typed value node)
HoldsValueOf(o, k) ==
    LET kid == ContentGet(heap, cfg.r, k)
        v == PyGet(o, k)
    IN IF v.t = "s" /\ IsValueNode(heap, kid)
       THEN PyGet(Dump(cfg.r), k) = PyS(StoredAs(heap[kid].vtype, v.v))
       ELSE PyGet(Dump(cfg.r), k) = v

\* C2: merge is a left-to-right fold: merge(c1, c2, c3) returns exactly when
\* merge(merge(c1, c2), c3) does, with equal content and the same object
\* type, and every key the right-most override holds with a value that is
\* not a map has the right-most override's value in the result.
C2_MergeIsLeftFold ==
    (Merged /\ Len(last.ids) = 3) =>
        /\ last.err = Nested.err
        /\ last.err = "" =>
              /\ Dump(cfg.r) = to_container(Nested.h, Nested.ret)
              /\ heap[cfg.r].object_type = Nested.h[Nested.ret].object_type
              /\ LET c3 == Dump(last.ids[3])
                 IN \A k \in PyKeys(c3) :
                        PyGet(c3, k).t # "d" => HoldsValueOf(c3, k)

\* a three-way merge returned, and both overrides changed the accumulator
C2_Witness ==
    /\ MergedOk
    /\ Len(last.ids) = 3
    /\ LET m12 == merge(prev, <<PyN(last.ids[1]), PyN(last.ids[2])>>)
       IN /\ to_container(m12.h, m12.ret) # Dump(last.ids[1])
          /\ to_container(m12.h, m12.ret) # Dump(cfg.r)
          /\ \E k \in PyKeys(Dump(last.ids[3])) :
                 PyHas(Dump(last.ids[2]), k) /\ PyHas(Dump(last.ids[1]), k)

\* the keys of the map node n, and whether n holds a map
KeySet(n) == {heap[n].keys[i] : i \in 1..Len(heap[n].keys)}
IsMap(n) == n # 0 /\ heap[n].kind = "dict" /\ heap[n].ctype = "map"
Kid(n, k) == ContentGet(heap, n, k)

\* node r holds the value of node o (converted to the type of the field when
\* r is a typed value node)
HoldsNode(r, o) ==
    IF IsValueNode(heap, r) /\ IsValueNode(heap, o)
    THEN heap[r].val = StoredAs(heap[r].vtype, heap[o].val)
    ELSE Dump(r) = Dump(o)

RECURSIVE IsMergeOf(_, _, _)

\* the map r is the recursive, key-preserving merge of the map o into the map a
IsMergeOf(r, a, o) ==
    /\ IsMap(r)
    /\ KeySet(r) = KeySet(a) \cup KeySet(o)
    /\ \A k \in KeySet(a) \ KeySet(o) : Dump(Kid(r, k)) = Dump(Kid(a, k))
    /\ \A k \in KeySet(o) :
          IF k \in KeySet(a) /\ IsMap(Kid(a, k)) /\ IsMap(Kid(o, k))
          THEN IsMergeOf(Kid(r, k), Kid(a, k), Kid(o, k))
          ELSE HoldsNode(Kid(r, k), Kid(o, k))

IsSeq(n) == n # 0 /\ heap[n].kind = "list" /\ heap[n].ctype = "seq"

\* C4: a sequence merged into a sequence replaces it wholesale: the merge
\* of the sequence o into a sequence a that is not readonly returns and the
\* result equals o element for element, at the top level and under every
\* key of a map merge where both sides hold a sequence.
C4_SeqMergeReplaces ==
    (Merged /\ Len(last.ids) = 2) =>
        LET a == last.ids[1]
            o == last.ids[2]
        IN /\ (IsSeq(a) /\ IsSeq(o) /\ _get_flag(heap, a, "readonly") # "true")
                => (last.err = "" /\ Dump(cfg.r) = Dump(o))
           /\ (last.err = "" /\ IsMap(a) /\ IsMap(o)) =>
                \A k \in KeySet(a) \cap KeySet(o) :
                    (IsSeq(Kid(a, k)) /\ IsSeq(Kid(o, k)))
                        => Dump(Kid(cfg.r, k)) = Dump(Kid(o, k))

\* a returned merge of two different sequences, the base's first element a
\* map and the override's first element a map with another key
C4_Witness ==
    /\ MergedOk /\ Len(last.ids) = 2
    /\ IsSeq(last.ids[1]) /\ IsSeq(last.ids[2])
    /\ Dump(last.ids[1]) # Dump(last.ids[2])
    /\ IsMap(heap[last.ids[1]].kids[1]) /\ IsMap(heap[last.ids[2]].kids[1])
    /\ Len(heap[last.ids[1]].kids) > Len(heap[last.ids[2]].kids)

\* the key k the child of r at key refers to, when the child's stored
\* content is the path interpolation "${k}" ("" otherwise)
RefTarget(h, r, key) ==
    LET n == ContentGet(h, r, key)
    IN IF n # 0 /\ IsValueNode(h, n) /\ \E k \in MergeKeySet : h[n].val = II(<<k>>)
       THEN CHOOSE k \in MergeKeySet : h[n].val = II(<<k>>)
       ELSE ""

\* C5: a path interpolation is resolved when it is read, against the merged
\* tree: reading a key of the merged result whose stored content is "${k}",
\* with k a key of the result, has the outcome of reading k itself, and when
\* k stores a plain value the read returns that value.
C5_ReadAfterMerge ==
    (last.op = "get" /\ RefTarget(prev, cfg.r, last.key) # "") =>
        LET k == RefTarget(prev, cfg.r, last.key)
            t == ContentGet(prev, cfg.r, k)
            g == __getitem__(prev, resolvers, cfg.r, k)
        IN t # 0 =>
            /\ last.err = g.err
            /\ last.err = "" => last.ret = g.ret
            /\ (IsValueNode(prev, t) /\ get_value_kind(prev[t].val) = "VALUE")
                  => (last.err = "" /\ last.ret = PyS(prev[t].val))

\* the base held "${k}" and a value at k, the merge replaced the value at k,
\* and the read of the reference returned the replacement
C5_Witness ==
    /\ last.op = "get" /\ last.err = "" /\ RefTarget(prev, cfg.r, last.key) # ""
    /\ LET k == RefTarget(prev, cfg.r, last.key)
           t == ContentGet(heap, cfg.r, k)
           b == ContentGet(heap, cfg.c1, k)
       IN /\ RefTarget(heap, cfg.c1, last.key) = k
          /\ t # 0 /\ b # 0
          /\ IsValueNode(heap, t) /\ IsValueNode(heap, b)
          /\ get_value_kind(heap[t].val) = "VALUE"
          /\ get_value_kind(heap[b].val) = "VALUE"
          /\ heap[t].val # heap[b].val
          /\ last.ret = PyS(heap[t].val)

\* the override of the two-way merge that has just run would change the
\* content of the base if the base were not readonly
ContentChanging ==
    LET a == last.ids[1]
        m == merge(_set_flag(prev, a, "readonly", "unset"),
                   <<PyN(a), PyN(last.ids[2])>>)
    IN m.err = "" /\ to_container(m.h, m.ret) # DumpPrev(a)

\* C6: merging a content-changing override into a config whose readonly
\* flag resolves true raises ReadonlyConfigError and leaves the content of
\* the readonly config as it was.
C6_ReadonlyMergeRaises ==
    (Merged /\ Len(last.ids) = 2
        /\ _get_flag(prev, last.ids[1], "readonly") = "true"
        /\ ContentChanging)
        => /\ last.err = "ReadonlyConfigError"
           /\ Dump(last.ids[1]) = DumpPrev(last.ids[1])

\* a == b as the library compares two configs of one kind
StructEq(h, a, b) ==
    IF h[a].kind = "dict" /\ h[b].kind = "dict" THEN _dict_conf_eq(h, a, b)
    ELSE IF h[a].kind = "list" /\ h[b].kind = "list" THEN _list_eq(h, a, b)
    ELSE FALSE

Incoming ==
    IF last.op = "set" /\ last.val.t = "sc"
    THEN [cls |-> last.val.cls, holder |-> last.ids[1], key |-> last.key]
    ELSE IF last.op = "merge_with" /\ last.val.t = "sc"
         THEN [cls |-> last.val.cls, holder |-> last.ids[1], key |-> ""]
    ELSE IF last.op = "merge_with" /\ last.val.t = "d"
            /\ Len(last.val.items) = 1 /\ last.val.items[1].x.t = "sc"
         THEN [cls |-> last.val.items[1].x.cls, holder |-> last.ids[1],
               key |-> last.val.items[1].k]
    ELSE [cls |-> "", holder |-> 0, key |-> ""]

\* the node at the place of Incoming in heap h (0 when there is none)
PlaceIn(h) ==
    IF Incoming.holder = 0 THEN 0
    ELSE IF Incoming.key = "" THEN Incoming.holder
    ELSE ContentGet(h, Incoming.holder, Incoming.key)

\* the existing child at the place is schema-typed, and neither it nor the
\* container holding it is readonly
TypedPlace ==
    /\ PlaceIn(prev) # 0
    /\ prev[PlaceIn(prev)].kind = "dict"
    /\ prev[PlaceIn(prev)].object_type # "None"
    /\ _get_flag(prev, PlaceIn(prev), "readonly") # "true"
    /\ _get_flag(prev, Incoming.holder, "readonly") # "true"

FieldNames(cls) == {Fields(cls)[i].name : i \in 1..Len(Fields(cls))}

\* the place holds the fields of its type, each a scalar (no field was
\* popped or replaced by a container)
ScalarFields ==
    /\ {prev[PlaceIn(prev)].keys[i] : i \in 1..Len(prev[PlaceIn(prev)].keys)}
           = FieldNames(prev[PlaceIn(prev)].object_type)
    /\ \A i \in 1..Len(prev[PlaceIn(prev)].kids) :
           prev[prev[PlaceIn(prev)].kids[i]].kind = "val"

\* C7: a schema-typed value set or merged onto an existing schema-typed
\* child that is not readonly is accepted only when its type is the child's
\* type or a subclass of it, and then the place holds a map of the incoming
\* type with that type's fields; a value of any other type raises
\* ValidationError; a value of the type or a subclass is accepted when the
\* child holds the fields of its type as scalars and no struct flag is in
\* effect at the place or at the container holding it.
C7_TypedIncoming ==
    TypedPlace =>
        LET compatible == issubclass(Incoming.cls, prev[PlaceIn(prev)].object_type)
        IN /\ last.err = "" =>
                /\ compatible
                /\ heap[PlaceIn(heap)].object_type = Incoming.cls
                /\ KeySet(PlaceIn(heap)) = FieldNames(Incoming.cls)
           /\ ~compatible => last.err = "ValidationError"
           /\ (compatible /\ ScalarFields
                  /\ _get_flag(prev, PlaceIn(prev), "struct") # "true"
                  /\ _get_flag(prev, Incoming.holder, "struct") # "true")
                => last.err = ""

\* a ConcretePlugin was set onto a child typed Plugin
C7_Witness ==
    /\ TypedPlace
    /\ last.op = "set" /\ last.err = ""
    /\ Incoming.cls = "ConcretePlugin"
    /\ prev[PlaceIn(prev)].object_type = "Plugin"
    /\ heap[PlaceIn(heap)].object_type = "ConcretePlugin"

\* the nodes of the config rooted at n: the containers, their resolver
\* caches and the value nodes
RECURSIVE Reach(_, _)
Reach(h, n) ==
    IF n = 0 THEN {}
    ELSE {n} \cup (IF h[n].cacheref = 0 THEN {} ELSE {h[n].cacheref})
             \cup UNION {Reach(h, h[n].kids[i]) : i \in 1..Len(h[n].kids)}

\* the slot the last operation acted on, and the other one
Acted == IF Len(last.args) = 0 THEN "" ELSE last.args[1]
OtherSlot == IF Acted = "c1" THEN "c2" ELSE "c1"

\* C9: once c2 = deepcopy(c1) exists, the two configs share no node, and a
\* set, pop, merge_with, flag change or read on one of them (at the top or
\* on its child) leaves every node of the other as it was: content, flags,
\* types and parent.
C9_DeepCopyIsolates ==
    cfg.c2 # 0 =>
        /\ Reach(heap, cfg.c1) \cap Reach(heap, cfg.c2) = {}
        /\ last.op = "copy" =>
               /\ last.err = ""
               /\ Dump(cfg.c2) = Dump(cfg.c1)
               /\ \A n \in Reach(prev, cfg.c1) : heap[n] = prev[n]
        /\ last.op \in {"set", "pop", "merge_with", "flag", "get", "contains"} =>
               /\ \A n \in Reach(prev, cfg[OtherSlot]) : heap[n] = prev[n]
               /\ to_container(heap, cfg[OtherSlot])
                     = to_container(prev, cfg[OtherSlot])

\* a set on the child of the copy went through and the original differs
\* from the copy
C9_Witness ==
    /\ cfg.c2 # 0
    /\ last.op = "set" /\ last.args = <<"c2", "a">> /\ last.err = ""
    /\ Dump(cfg.c2) # Dump(cfg.c1)
    /\ Dump(cfg.c1) = DumpPrev(cfg.c1)

\* the child of the config the last operation read, before the read
ReadKid == ContentGet(prev, last.ids[1], last.key)

\* node n holds the missing-sentinel "???"
HoldsMissing(h, n) ==
    IF IsContainer(h, n) THEN _is_missing(h, n) ELSE h[n].val = MISSING

\* node n holds one interpolation "${name:...}" whose resolver name is not
\* registered
HoldsUnregistered(h, n) ==
    /\ IsValueNode(h, n)
    /\ get_value_kind(h[n].val) = "INTERPOLATION"
    /\ Len(h[n].val.s) >= 3 /\ h[n].val.s[3] = ":"
    /\ \A r \in resolvers : r.name # <<h[n].val.s[2]>>

\* node n holds a plain value: a scalar that is no interpolation and not
\* "???", None, or a container that holds a map or a sequence
HoldsPlain(h, n) ==
    IF IsContainer(h, n) THEN h[n].ctype \in {"map", "seq", "none"}
    ELSE get_value_kind(h[n].val) = "VALUE"

\* C10: key in cfg on a map raises nothing and is False when there is no
\* child at key (also for a key a typed or struct config does not have),
\* False when the child holds "???", True when the child holds an
\* interpolation whose resolver is not registered, True when the child
\* holds a plain value and True when cfg[key] returns a value.
C10_Contains ==
    last.op = "contains" =>
        /\ last.err = ""
        /\ ReadKid = 0 => last.ret = PyS(BoolV(FALSE))
        /\ (ReadKid # 0 /\ HoldsMissing(prev, ReadKid))
              => last.ret = PyS(BoolV(FALSE))
        /\ (ReadKid # 0 /\ HoldsUnregistered(prev, ReadKid))
              => last.ret = PyS(BoolV(TRUE))
        /\ (ReadKid # 0 /\ HoldsPlain(prev, ReadKid))
              => last.ret = PyS(BoolV(TRUE))
        /\ (ReadKid # 0
              /\ __getitem__(prev, resolvers, last.ids[1], last.key).err = "")
              => last.ret = PyS(BoolV(TRUE))

\* "a" in cfg was False for a child holding "???"
C10_Witness ==
    /\ last.op = "contains" /\ last.err = ""
    /\ ReadKid # 0 /\ HoldsMissing(prev, ReadKid)
    /\ last.ret = PyS(BoolV(FALSE))

(***************************************************************************)
(* Properties of the resolver registry and of the resolver cache.          *)
(***************************************************************************)
\* the resolver name and the raw argument string of the interpolation
\* "${name:args}" held by the child that was read (name <<>> otherwise)
ReadRef ==
    LET n == ReadKid
        s == prev[n].val.s
    IN IF n # 0 /\ IsValueNode(prev, n)
          /\ get_value_kind(prev[n].val) = "INTERPOLATION"
          /\ Len(s) >= 4 /\ s[3] = ":"
       THEN [name |-> <<s[2]>>, key |-> SubSeq(s, 4, Len(s) - 1)]
       ELSE [name |-> <<>>, key |-> <<>>]

\* the cache entries of the config that was read, before and after the read
CacheBefore == prev[get_cache(prev, last.ids[1])].cache
CacheAfter == heap[get_cache(heap, last.ids[1])].cache

C12_Registry ==
    /\ (last.op = "register" /\ Registered(last.reg, <<last.args[1]>>)) =>
          (last.err = "AssertionError" /\ resolvers = last.reg)
    /\ (last.op = "register" /\ ~Registered(last.reg, <<last.args[1]>>)
           /\ callable(last.args[2])) =>
          /\ last.err = ""
          /\ resolvers = last.reg
                \cup {[name |-> <<last.args[1]>>, fn |-> last.args[2]]}
    /\ (last.op = "get_resolver" /\ ~Registered(last.reg, <<last.args[1]>>)) =>
          last.ret = PyS(StrV(<<"None">>))
    /\ (last.op = "get_resolver" /\ Registered(last.reg, <<last.args[1]>>)) =>
          last.ret = PyS(StrV(<<ResolverOf(last.reg, <<last.args[1]>>)>>))
    /\ last.op = "clear" =>
          (resolvers = DefaultResolvers
             /\ {e.name : e \in resolvers} = {<<"env">>})
    /\ \A e1, e2 \in resolvers : e1.name = e2.name => e1 = e2

\* a second registration of a user name with another function was refused
C12_Witness ==
    /\ last.op = "register" /\ last.err = "AssertionError"
    /\ last.args[1] = "f" /\ callable(last.args[2])
    /\ Registered(last.reg, <<"f">>)
    /\ ResolverOf(last.reg, <<"f">>) # last.args[2]
    /\ resolvers = last.reg

(***************************************************************************)
(* Properties of assignment: cfg[key] = value.                             *)
(***************************************************************************)
\* the child the assignment targets (0 for none) and whether the node that
\* decides the readonly check, the child or else the container, is readonly
SetTarget == ContentGet(prev, last.ids[1], last.key)
SetTargetReadonly ==
    IF SetTarget # 0 THEN _get_flag(prev, SetTarget, "readonly") = "true"
    ELSE _get_flag(prev, last.ids[1], "readonly") = "true"

\* C13: cfg[key] = value on a map whose child under key is readonly, or
\* which has no child under key and is itself readonly, raises
\* ReadonlyConfigError and changes nothing, for every value, "???" included.
C13_ReadonlySetRaises ==
    (last.op = "set" /\ last.key \in StrKeys
        /\ prev[last.ids[1]].ctype = "map" /\ SetTargetReadonly) =>
       (last.err = "ReadonlyConfigError" /\ heap = prev)

\* the exceptions of a failed assignment
SetErrors ==
    {"ReadonlyConfigError", "ValidationError", "KeyValidationError",
     "UnsupportedValueType"}

\* C14: cfg[key] = value that raises ReadonlyConfigError, ValidationError,
\* KeyValidationError or UnsupportedValueType leaves every node of the
\* config as it was: keys, children, content, object_type, flags.
C14_FailedSetLeavesTree ==
    (last.op = "set" /\ last.err \in SetErrors) =>
        \A n \in Reach(prev, cfg[Acted]) : heap[n] = prev[n]

(***************************************************************************)
(* Properties of cfg.get(key, default_value).                              *)
(***************************************************************************)
\* C15: get of a key the map does not hold returns the default when one
\* that is not None is given; without one it raises the unknown-key error
\* (AttributeError) exactly when the map is typed, its own struct flag is
\* not False and its type is no subclass of dict, or the map is untyped and
\* its struct flag resolves to True through its parents; otherwise it
\* returns None.
C15_GetAbsentKey ==
    (last.op = "get_key" /\ prev[last.ids[1]].ctype = "map"
        /\ ~HasKey(prev, last.ids[1], last.key)) =>
       LET n == last.ids[1]
           typed == prev[n].object_type # "None"
           unknown ==
               \/ /\ typed
                  /\ prev[n].flags["struct"] # "false"
                  /\ ~issubclass(prev[n].object_type, "dict")
               \/ /\ ~typed
                  /\ _get_flag(prev, n, "struct") = "true"
       IN IF last.val # PyNone
          THEN last.err = "" /\ last.ret = last.val
          ELSE IF unknown THEN last.err = "AttributeError"
          ELSE last.err = "" /\ last.ret = PyNone

\* get without a default raised on an untyped child that has no struct flag
\* of its own and inherits True from the root
C15_Witness ==
    /\ last.op = "get_key" /\ last.args[2] = "a" /\ last.val = PyNone
    /\ prev[last.ids[1]].ctype = "map"
    /\ ~HasKey(prev, last.ids[1], last.key)
    /\ prev[last.ids[1]].object_type = "None"
    /\ prev[last.ids[1]].flags["struct"] = "unset"
    /\ _get_flag(prev, last.ids[1], "struct") = "true"
    /\ last.err = "AttributeError"

(***************************************************************************)
(* Properties of ==.                                                       *)
(***************************************************************************)
RECURSIVE EqualUnresolved(_, _, _)
\* nodes n1 and n2 of h hold equal unresolved content: two maps are both
\* None, or neither is and they have as many keys, each key of n1 a key of
\* n2 with an equal child; two sequences likewise by position; two values
\* are the same stored value; a container equals a value only when both
\* are None
EqualUnresolved(h, n1, n2) ==
    IF n1 = 0 \/ n2 = 0 THEN n1 = n2
    ELSE IF h[n1].kind = "dict" /\ h[n2].kind = "dict"
    THEN \/ h[n1].ctype = "none" /\ h[n2].ctype = "none"
         \/ /\ h[n1].ctype # "none" /\ h[n2].ctype # "none"
            /\ Cardinality({k \in StrKeys : HasKey(h, n1, k)})
                  = Cardinality({k \in StrKeys : HasKey(h, n2, k)})
            /\ \A k \in {j \in StrKeys : HasKey(h, n1, j)} :
                   /\ HasKey(h, n2, k)
                   /\ EqualUnresolved(h, ContentGet(h, n1, k), ContentGet(h, n2, k))
    ELSE IF h[n1].kind = "list" /\ h[n2].kind = "list"
    THEN \/ h[n1].ctype = "none" /\ h[n2].ctype = "none"
         \/ /\ h[n1].ctype # "none" /\ h[n2].ctype # "none"
            /\ Len(h[n1].kids) = Len(h[n2].kids)
            /\ \A i \in 1..Len(h[n1].kids) :
                   EqualUnresolved(h, h[n1].kids[i], h[n2].kids[i])
    ELSE IF IsContainer(h, n1) \/ IsContainer(h, n2)
    THEN _is_none(h, n1) /\ _is_none(h, n2)
    ELSE h[n1].val = h[n2].val

\* every container under n holds a map, a sequence or None (not "???" and
\* not an interpolation string)
PlainContainers(h, n) ==
    \A m \in Reach(h, n) : IsContainer(h, m) => h[m].ctype # "str"

FieldDump(cls, k) ==
    LET made == create(<<>>, PySC(cls))
    IN to_container(made.h, ContentGet(made.h, made.ret, k))

\* C17: _promote(type) of an untyped map that returns leaves the map with
\* object_type = type, every key the map held before with the value it
\* had, and every field of the type the map did not hold with the default
\* of the field.
C17_PromoteKeepsValues ==
    (/\ last.op = "promote" /\ last.err = ""
     /\ is_structured_value(last.val)
     /\ prev[last.ids[1]].ctype = "map"
     /\ prev[last.ids[1]].object_type = "None") =>
        LET n == last.ids[1]
            cls == last.val.cls
        IN /\ heap[n].object_type = cls
           /\ \A k \in StrKeys :
                  HasKey(prev, n, k) =>
                     /\ HasKey(heap, n, k)
                     /\ to_container(heap, ContentGet(heap, n, k))
                           = to_container(prev, ContentGet(prev, n, k))
           /\ \A k \in FieldNames(cls) :
                  ~HasKey(prev, n, k) =>
                     /\ HasKey(heap, n, k)
                     /\ to_container(heap, ContentGet(heap, n, k)) = FieldDump(cls, k)

(***************************************************************************)
(* Properties of the errors of OmegaConf.merge.                            *)
(***************************************************************************)
\* C18: OmegaConf.merge(base, other) raises TypeError when one of base and
\* other is a map and the other one a sequence, and ValueError when other
\* is None; in both cases no merged config is returned.
C18_MergeErrors ==
    last.op = "merge_other" =>
        /\ last.val = PyNone => (last.err = "ValueError" /\ cfg.r = 0)
        /\ (last.val.t = "n"
               /\ prev[last.ids[1]].kind # prev[last.val.id].kind) =>
              (last.err = "TypeError" /\ cfg.r = 0)

\* a map was merged into a sequence
C18_Witness ==
    /\ last.op = "merge_other" /\ last.val.t = "n"
    /\ prev[last.ids[1]].kind = "list"
    /\ prev[last.val.id].kind = "dict"
    /\ prev[last.val.id].ctype = "map"
    /\ last.err = "TypeError"
    /\ cfg.r = 0

(***************************************************************************)
(* Properties of OmegaConf.create and OmegaConf.to_container.              *)
(***************************************************************************)
RECURSIVE PrimitiveValue(_)
\* t is a scalar that is neither "???" nor an interpolation, or a dict or a
\* list of such values
PrimitiveValue(t) ==
    IF t.t = "s" THEN t = PyNone \/ get_value_kind(t.v) = "VALUE"
    ELSE IF t.t \in {"d", "l"}
         THEN \A i \in 1..Len(t.items) : PrimitiveValue(t.items[i].x)
    ELSE FALSE

\* C19: for a dict or a list t of nested dicts, lists and scalars without
\* "???" and without interpolations, OmegaConf.create(t) returns and
\* to_container of it is t: the same nesting, keys, key order and values.
C19_RoundTrip ==
    (last.op = "round_trip" /\ last.val.t \in {"d", "l"}
        /\ PrimitiveValue(last.val)) =>
       (last.err = "" /\ last.ret = last.val)

\* a list holding a dict that holds a list went through the round trip
C19_Witness ==
    /\ last.op = "round_trip" /\ last.err = "" /\ last.val.t = "l"
    /\ PrimitiveValue(last.val)
    /\ \E i \in 1..Len(last.val.items) :
           /\ last.val.items[i].x.t = "d"
           /\ \E j \in 1..Len(last.val.items[i].x.items) :
                  /\ last.val.items[i].x.items[j].x.t = "l"
                  /\ last.val.items[i].x.items[j].x.items # <<>>
    /\ last.ret = last.val

(***************************************************************************)
(* Properties of the binding of a dataclass.                               *)
(***************************************************************************)
\* what the config holds for the Python value v: the content of the config
\* created from a dataclass, else v itself
BoundDump(v) ==
    LET made == create(<<>>, v)
    IN IF v.t = "sc" THEN to_container(made.h, made.ret) ELSE v

\* the value the binding of obj takes for field: the constructor argument,
\* else the default, else the type of the field when it is a dataclass
\* ([has |-> FALSE] when there is none of them)
FieldValue(obj, field) ==
    LET attr == InstanceAttr(obj, field.name)
    IN IF attr.has THEN attr
       ELSE IF field.has_default \/ field.factory
            THEN [has |-> TRUE, x |-> field.default]
       ELSE IF is_structured_config(field.type)
            THEN [has |-> TRUE, x |-> PySC(field.type)]
       ELSE [has |-> FALSE, x |-> PyNone]

\* C20: OmegaConf.create of a dataclass type or instance binds every field
\* to the value of the instance if it has one, else to the default of the
\* field, else, for a field whose type is a dataclass, to that dataclass
\* unbound; when a field has none of the three, create raises ValueError
\* and no config is made.
C20_SchemaBinding ==
    (last.op = "create" /\ last.val.t = "sc") =>
        LET obj == last.val
            fields == Fields(obj.cls)
            n == last.ids[1]
        IN IF \E i \in 1..Len(fields) : ~FieldValue(obj, fields[i]).has
           THEN /\ last.err = "ValueError"
                /\ n = 0
                /\ cfg[last.args[1]] = 0
           ELSE /\ last.err = ""
                /\ n # 0 /\ cfg[last.args[1]] = n
                /\ heap[n].object_type = obj.cls
                /\ heap[n].keys = [i \in 1..Len(fields) |-> fields[i].name]
                /\ \A i \in 1..Len(fields) :
                       to_container(heap, ContentGet(heap, n, fields[i].name))
                           = BoundDump(FieldValue(obj, fields[i]).x)

\* an instance was bound whose constructor argument differs from the
\* default of the field
C20_Witness ==
    /\ last.op = "create" /\ last.val.t = "sc" /\ last.err = ""
    /\ \E i \in 1..Len(Fields(last.val.cls)) :
           LET field == Fields(last.val.cls)[i]
           IN /\ field.has_default
              /\ InstanceAttr(last.val, field.name).has
              /\ InstanceAttr(last.val, field.name).x # field.default
              /\ to_container(heap, ContentGet(heap, last.ids[1], field.name))
                    = InstanceAttr(last.val, field.name).x

(***************************************************************************)
(* Properties of None assigned to a map node.                              *)
(***************************************************************************)
\* the map node that takes the None of the last operation: the child under
\* the key of cfg[key] = None, the child under a of merge_with({a: None})
NoneKey == IF last.op = "set" THEN last.key ELSE "a"
NoneTarget ==
    IF \/ last.op = "set" /\ last.val = PyNone /\ last.key \in StrKeys
       \/ last.op = "merge_with" /\ last.val = PyD(<<KV("a", PyNone)>>)
    THEN Let(ContentGet(prev, last.ids[1], NoneKey),
             LAMBDA t : IF t # 0 /\ prev[t].kind = "dict"
                           /\ _get_flag(prev, t, "readonly") # "true"
                        THEN t ELSE 0)
    ELSE 0
\* keys, children and content of a node
Content(h, n) == <<h[n].ctype, h[n].val, h[n].keys, h[n].kids>>

\* C21: None assigned (cfg[key] = None) or merged (merge_with({a: None}))
\* into a map node that is not optional and not readonly raises
\* ValidationError and the node keeps its content, keys and children;
\* cfg[key] = None on an optional map node returns and the node, still the
\* child under the key, holds None and has no keys and no children.
C21_NoneIntoMap ==
    NoneTarget # 0 =>
        IF ~prev[NoneTarget].optional
        THEN /\ last.err = "ValidationError"
             /\ Content(heap, NoneTarget) = Content(prev, NoneTarget)
             /\ ContentGet(heap, last.ids[1], NoneKey) = NoneTarget
        ELSE last.op = "set" =>
                /\ last.err = ""
                /\ ContentGet(heap, last.ids[1], NoneKey) = NoneTarget
                /\ Content(heap, NoneTarget) = <<"none", NoneV, <<>>, <<>>>>

\* None was assigned to a non-optional map node that held fields, None was
\* merged into one, or None was assigned to an optional map that held keys
C21_Witness ==
    /\ NoneTarget # 0
    /\ prev[NoneTarget].ctype = "map" /\ Len(prev[NoneTarget].keys) > 0
    /\ \/ last.op = "merge_with" /\ ~prev[NoneTarget].optional
       \/ last.op = "set" /\ prev[NoneTarget].optional

(***************************************************************************)
(* Properties of get_value_kind.                                           *)
(***************************************************************************)
ValueKinds == {"MANDATORY_MISSING", "VALUE", "INTERPOLATION", "STR_INTERPOLATION"}

\* the tokens b are the inside of a placeholder: a path, or a resolver name
\* (word characters) followed by a colon and by the arguments
IsPlaceholderBody(b) ==
    \E p \in 0..Len(b) :
        /\ p = 0 \/ (p >= 2 /\ b[p] = ":" /\ \A q \in 1..(p - 1) : b[q] \in WordToks)
        /\ \A q \in (p + 1)..Len(b) : b[q] \in WordToks \cup LegalToks
\* the placeholders of the string s, as <<from, to>>
Placeholders(s) ==
    {<<i, j>> \in (1..Len(s)) \X (1..Len(s)) :
        /\ i < j /\ s[i] = "${" /\ s[j] = "}"
        /\ IsPlaceholderBody(SubSeq(s, i + 1, j - 1))}

\* the kind the classification rules give to a value that is not a container
ScalarKind(v) ==
    IF v = MISSING THEN "MANDATORY_MISSING"
    ELSE IF v.ty # "str" \/ Placeholders(v.s) = {} THEN "VALUE"
    ELSE IF Placeholders(v.s) = {<<1, Len(v.s)>>} THEN "INTERPOLATION"
    ELSE "STR_INTERPOLATION"

\* the classified value is a container, and its content is "???" or a
\* string with a placeholder
KindOfContainer == last.val.t = "n" /\ IsContainer(heap, last.val.id)
ContainerUnresolved ==
    LET c == heap[last.val.id]
    IN c.ctype = "str" /\ (c.val = MISSING \/ Placeholders(c.val.s) # {})

\* C22: get_value_kind gives every value exactly one of the four kinds:
\* MANDATORY_MISSING to "???" and to a container whose content is "???"
\* or an interpolation, VALUE to every other container, to every value
\* that is not a string and to a string without placeholder, INTERPOLATION
\* to a string that is one placeholder and nothing else, STR_INTERPOLATION
\* to a string with a placeholder and other text or a second placeholder.
C22_ValueKind ==
    last.op = "kind" =>
        /\ last.ret.v.s[1] \in ValueKinds
        /\ last.ret.v.s[1] =
              IF KindOfContainer
              THEN IF ContainerUnresolved THEN "MANDATORY_MISSING" ELSE "VALUE"
              ELSE IF last.val.t = "n" THEN ScalarKind(heap[last.val.id].val)
              ELSE IF last.val.t = "s" THEN ScalarKind(last.val.v)
              ELSE "VALUE"

\* a string of two placeholders was classified
C22_Witness ==
    /\ last.op = "kind" /\ last.val.t = "s" /\ last.val.v.ty = "str"
    /\ Cardinality(Placeholders(last.val.v.s)) = 2
    /\ last.ret = PyS(StrV(<<"STR_INTERPOLATION">>))

(***************************************************************************)
(* Properties of the caches of two configs.                                *)
(***************************************************************************)
\* the entries of the resolver cache of container n
CacheOf(h, n) == h[get_cache(h, n)].cache
Containers(h) == {n \in 1..Len(h) : IsContainer(h, n)}
\* the containers of the two configs
Live == (Reach(heap, cfg.c1) \cup Reach(heap, cfg.c2)) \cap Containers(heap)
\* the containers of the config in the slot the last operation did not act on
OtherContainers == Reach(prev, cfg[OtherSlot]) \cap Containers(prev)

\* C23: no two containers of c1 and c2 hold the same cache dict; after c2 = deepcopy(c1)
\* the cache of c2 has the entries of the cache of c1, after
\* copy_cache(from, to) the cache of to has those of from, after
\* set_cache(conf, cache) the cache of conf has those of the dict given
\* and is another dict; the source is left as it was; and a read (which
\* may store a resolver's result), a set_cache, a copy_cache or a
\* clear_cache on one config leaves the cache of every container of the
\* other config as it was.
C23_CacheByValue ==
    /\ \A n1, n2 \in Live :
           get_cache(heap, n1) = get_cache(heap, n2) => n1 = n2
    /\ (last.op = "copy" /\ last.err = "") =>
           /\ CacheOf(heap, cfg.c2) = CacheOf(prev, cfg.c1)
           /\ CacheOf(heap, cfg.c1) = CacheOf(prev, cfg.c1)
    /\ last.op = "copy_cache" =>
           /\ CacheOf(heap, last.ids[1]) = CacheOf(prev, cfg[last.args[2]])
           /\ CacheOf(heap, cfg[last.args[2]]) = CacheOf(prev, cfg[last.args[2]])
    /\ last.op = "set_cache" =>
           /\ CacheOf(heap, last.ids[1]) \in CacheDicts
           /\ get_cache(heap, last.ids[1]) > Len(prev) + 1
           /\ heap[Len(prev) + 1].cache = CacheOf(heap, last.ids[1])
    /\ last.op = "clear_cache" => CacheOf(heap, last.ids[1]) = {}
    /\ last.op \in {"get", "copy_cache", "set_cache", "clear_cache"} =>
           \A n \in OtherContainers : CacheOf(heap, n) = CacheOf(prev, n)

\* c2 held the entries of the cache of c1, by deepcopy or copy_cache, and
\* a read of c2 stored a result that the cache of c1 does not hold
C23_Witness ==
    /\ last.op = "get" /\ Acted = "c2" /\ last.err = ""
    /\ CacheOf(prev, cfg.c2) = CacheOf(heap, cfg.c1)
    /\ CacheOf(prev, cfg.c2) # {}
    /\ CacheOf(heap, cfg.c2) # CacheOf(heap, cfg.c1)

(***************************************************************************)
(* Properties of a cache while the registry changes.                       *)
(***************************************************************************)
\* C27: the entries of a cache are [name, args, value] and nothing else;
\* register_resolver and clear_resolvers leave every cache as it was; a
\* read of "${name:args}" on a container whose cache holds (name, args)
\* returns the stored value and stores nothing, also when another
\* function is registered under name by now; clear_cache leaves the
\* container with an empty cache, and a read that finds no entry returns
\* what the function registered now returns.
C27_CacheOutlivesRegistry ==
    /\ \A e \in CacheOf(heap, cfg.c1) : DOMAIN e = {"name", "key", "val"}
    /\ last.op \in {"register", "clear"} => heap = prev
    /\ last.op = "clear_cache" => CacheOf(heap, cfg.c1) = {}
    /\ (last.op = "get" /\ ReadRef.name # <<>>
           /\ Registered(resolvers, ReadRef.name)) =>
          IF CacheHas(prev, cfg.c1, ReadRef.name, ReadRef.key)
          THEN /\ last.err = ""
               /\ last.ret = PyS(CacheGet(prev, cfg.c1, ReadRef.name, ReadRef.key))
               /\ heap = prev
          ELSE /\ last.err = ""
               /\ last.ret = PyS(CallResolver(ResolverOf(resolvers, ReadRef.name),
                                              _tokenize_args(ReadRef.key)).v)
               /\ CacheHas(heap, cfg.c1, ReadRef.name, ReadRef.key)

\* clear_cache was applied to a container that held the value of the first
\* function while the second one is registered under the name
C27_Witness ==
    /\ last.op = "clear_cache"
    /\ Registered(resolvers, <<"f">>) /\ ResolverOf(resolvers, <<"f">>) = "f2"
    /\ CacheHas(prev, cfg.c1, <<"f">>, <<"x">>)
    /\ CacheGet(prev, cfg.c1, <<"f">>, <<"x">>) = CallResolver("f1", <<"x">>).v
    /\ CallResolver("f2", <<"x">>).v # CallResolver("f1", <<"x">>).v

(***************************************************************************)
(* Properties of the parent links.                                         *)
(***************************************************************************)
\* the config rooted at root has no parent, and every child of each of its
\* containers, container or value node, has that container as parent
ParentsHold(h, root) ==
    root # 0 =>
        /\ h[root].parent = 0
        /\ \A n \in Reach(h, root) \cap Containers(h) :
               \A i \in 1..Len(h[n].kids) : h[h[n].kids[i]].parent = n

\* C24: in every config of the program, the created c1 and c3, the deep
\* copy c2 of c1 and the result r of OmegaConf.merge, the root has no
\* parent and every child has the container that holds it as parent; so
\* after r = merge(c2, c3) the children of r have r as parent and those
\* of c1, c2 and c3 still have c1, c2 and c3.
C24_ParentLinks ==
    \A slot \in {"c1", "c2", "c3", "r"} : ParentsHold(heap, cfg[slot])

\* the deep copy c2 was merged with c3: the result holds a child container
\* with children of its own under a key where c3 holds one, and c2 holds a
\* child container
C24_Witness ==
    /\ MergedOk /\ cfg.r # 0 /\ last.args = <<"c2", "c3">>
    /\ \E n \in Reach(heap, cfg.c2) \cap Containers(heap) : heap[n].parent = cfg.c2
    /\ \E i \in 1..Len(heap[cfg.r].kids) :
           /\ IsContainer(heap, heap[cfg.r].kids[i])
           /\ Len(heap[heap[cfg.r].kids[i]].kids) > 0
           /\ heap[heap[cfg.r].kids[i]].parent = cfg.r
           /\ i <= Len(heap[cfg.c3].kids)
           /\ IsContainer(heap, heap[cfg.c3].kids[i])
           /\ heap[heap[cfg.c3].kids[i]].parent = cfg.c3

(***************************************************************************)
(* Properties of the context managers.                                     *)
(***************************************************************************)
\* a with statement of one of the three context managers has run
Managed == last.op \in {"flag_override", "read_write", "open_dict"}

\* C25: after a with statement of flag_override, read_write or open_dict
\* on a node, whether its body returned or raised, the node's own flag
\* (readonly, struct, or the one named) is what it was before the
\* statement: true, false or unset.
C25_ManagersRestoreFlag ==
    Managed =>
        _get_node_flag(heap, last.ids[1], last.key)
            = _get_node_flag(prev, last.ids[1], last.key)

(***************************************************************************)
(* Properties of cfg.pop(key).                                             *)
(***************************************************************************)
\* the exceptions of a failed pop
PopErrors == {"ReadonlyConfigError", "KeyError", "MissingMandatoryValue"}

\* C26: cfg.pop(key) that raises ReadonlyConfigError, KeyError or
\* MissingMandatoryValue leaves the map as it was: its keys in their
\* order, and every child under them, at every depth.
C26_FailedPopLeavesMap ==
    (last.op = "pop" /\ last.err \in PopErrors) =>
        /\ heap[last.ids[1]].keys = prev[last.ids[1]].keys
        /\ heap[last.ids[1]].kids = prev[last.ids[1]].kids
        /\ \A n \in Reach(prev, last.ids[1]) : heap[n] = prev[n]

====
